---- MODULE Spec2Model ----
(***************************************************************************)
(* Log-analysis programs of TC1031-Portafolio_Final:                       *)
(*   Act5.2  hash table network -> summary (linear probing), queries       *)
(*   Act4.3  host / network hash tables, maxima with ties                  *)
(*   Act2.3  doubly linked list, merge sort, range report                  *)
(*   Act3_4  grouping by IP, the five most frequent addresses              *)
(* A C++ std::string is a sequence of character codes, so that hashing,    *)
(* splitting and digit parsing are computed as the code computes them.     *)
(* A linked list is the sequence of its nodes from head to tail.           *)
(***************************************************************************)
EXTENDS Integers, Sequences, FiniteSets, TLC

(***************************** bounds **************************************)
\* Slots of the Act5.2 table (65521 in the source, scaled down).
TABLE_SIZE ==
    3
\* Slots of each Act4.3 table (1000003 in the source, scaled down).
TABLE_SIZE_43 ==
    3
\* Lines of bitacora.txt read by one run of Act5.2.
MaxLines ==
    4
\* Largest query count N typed on standard input (Act5.2).
MaxQueries ==
    2
\* Lines of bitacora.txt read by one run of Act4.3.
MaxLines43 ==
    5
\* Longest list handed to sortIPList in the stand-alone sort specification.
MaxList ==
    3
\* Lines of bitacora.txt read by one run of Act2.3.
MaxLines23 ==
    4
\* Lines of bitacora.txt read by one run of Act3_4.
MaxLines34 ==
    7
\* Lines of bitacora.txt read by one run of Act4.3 on a file of one host: one
\* more than the first capacity of an entries array.
MaxLinesGrow43 ==
    11

(***************************** characters **********************************)
\* Character codes of the characters the model's strings use.
Ascii ==
    [c \in {".", ":", " ", "0", "1", "2", "3", "4", "5", "6", "7", "8", "9",
            "A", "D", "F", "J", "M", "N", "O", "R", "S",
            "a", "b", "c", "d", "e", "g", "k", "l", "n", "o", "p", "r", "t",
            "u", "v", "y"} |->
        CASE c = "." -> 46 [] c = ":" -> 58 [] c = " " -> 32
          [] c = "0" -> 48 [] c = "1" -> 49 [] c = "2" -> 50 [] c = "3" -> 51
          [] c = "4" -> 52 [] c = "5" -> 53 [] c = "6" -> 54 [] c = "7" -> 55
          [] c = "8" -> 56 [] c = "9" -> 57
          [] c = "J" -> 74 [] c = "k" -> 107 [] c = "l" -> 108 [] c = "u" -> 117
          [] c = "R" -> 82 [] c = "a" -> 97 [] c = "c" -> 99 [] c = "d" -> 100
          [] c = "e" -> 101 [] c = "n" -> 110 [] c = "o" -> 111
          [] c = "r" -> 114 [] c = "t" -> 116
          [] c = "A" -> 65 [] c = "D" -> 68 [] c = "F" -> 70 [] c = "M" -> 77
          [] c = "N" -> 78 [] c = "O" -> 79 [] c = "S" -> 83 [] c = "b" -> 98
          [] c = "g" -> 103 [] c = "p" -> 112 [] c = "v" -> 118 [] c = "y" -> 121]

\* The string whose characters are the one-character strings of t.
S(t) ==
    [i \in 1..Len(t) |-> Ascii[t[i]]]

\* Index of the first occurrence of code ch in s at or after position from
\* (1-based), 0 when there is none: std::string::find(ch, pos).
RECURSIVE Find(_, _, _)
Find(s, ch, from) ==
    IF from > Len(s) THEN 0
    ELSE IF s[from] = ch THEN from
    ELSE Find(s, ch, from + 1)

\* operator<< of an int that is >= 0: its decimal digits.
RECURSIVE IntToStr(_)
IntToStr(n) ==
    IF n < 10 THEN <<Ascii["0"] + n>>
    ELSE Append(IntToStr(n \div 10), Ascii["0"] + (n % 10))

(***************************** Act5.2: helpers *****************************)
\* 3.1 hashFunction: two-prime accumulation, reduced modulo TABLE_SIZE.
RECURSIVE HashFrom(_, _, _)
HashFrom(key, i, hash) ==
    IF i > Len(key) THEN hash % TABLE_SIZE
    ELSE HashFrom(key, i + 1, (((hash * 31 + key[i]) % TABLE_SIZE) + 37) % TABLE_SIZE)

hashFunction(key) ==
    HashFrom(key, 1, 0)

\* 3.2 extractNetwork: the text before the second dot, "" with fewer dots.
extractNetwork(ip) ==
    LET firstDot == Find(ip, Ascii["."], 1)
        secondDot == IF firstDot = 0 THEN 0 ELSE Find(ip, Ascii["."], firstDot + 1)
    IN IF firstDot = 0 THEN <<>>
       ELSE IF secondDot = 0 THEN <<>>
       ELSE SubSeq(ip, 1, secondDot - 1)

\* Mutant: no IP is ever recognised as already listed.
ipExists_Never(head, ip) ==
    FALSE

\* 3.3 ipExists: linear scan of the list for an equal string.
RECURSIVE ipExists(_, _)
ipExists(head, ip) ==
    IF head = <<>> THEN FALSE
    ELSE IF Head(head) = ip THEN TRUE
    ELSE ipExists(Tail(head), ip)

\* 3.4 addIP: new node at the front of the list.
addIP(head, ip) ==
    <<ip>> \o head

\* The parts std::getline(ss, part, '.') yields until the stream fails: the
\* text between dots; nothing follows a final dot and "" has no part.
RECURSIVE GetlineParts(_)
GetlineParts(s) ==
    IF s = <<>> THEN <<>>
    ELSE LET d == Find(s, Ascii["."], 1)
         IN IF d = 0 THEN <<s>>
            ELSE <<SubSeq(s, 1, d - 1)>> \o GetlineParts(SubSeq(s, d + 1, Len(s)))

\* Inner loop of parseIPOctets: value = value * 10 + (part[i] - '0').
RECURSIVE OctetValue(_, _, _)
OctetValue(part, i, value) ==
    IF i > Len(part) THEN value
    ELSE OctetValue(part, i + 1, value * 10 + (part[i] - Ascii["0"]))

\* 3.5 parseIPOctets: octets[0..count-1], at most four of them.
parseIPOctets(ip) ==
    LET parts == GetlineParts(ip)
        count == IF Len(parts) < 4 THEN Len(parts) ELSE 4
    IN [i \in 1..count |-> OctetValue(parts[i], 1, 0)]

\* Loop of compareIPs from octet i on (1-based).
RECURSIVE CompareFrom(_, _, _)
CompareFrom(octets1, octets2, i) ==
    IF i > 4 \/ i > Len(octets1) \/ i > Len(octets2)
    THEN Len(octets1) < Len(octets2)
    ELSE IF octets1[i] # octets2[i] THEN octets1[i] < octets2[i]
    ELSE CompareFrom(octets1, octets2, i + 1)

\* Mutant: the octets are compared as text, character by character.
RECURSIVE LexLess(_, _, _)
LexLess(a, b, i) ==
    IF i > Len(a) \/ i > Len(b) THEN Len(a) < Len(b)
    ELSE IF a[i] # b[i] THEN a[i] < b[i]
    ELSE LexLess(a, b, i + 1)

compareIPs_Lexicographic(ip1, ip2) ==
    LexLess(ip1, ip2, 1)

\* 3.6 compareIPs: ip1 < ip2 numerically, octet by octet.
compareIPs(ip1, ip2) ==
    CompareFrom(parseIPOctets(ip1), parseIPOctets(ip2), 1)

\* Inner while of sortIPList: last position k of sorted such that every node
\* after search (position k) up to it precedes current.
RECURSIVE SearchPos(_, _, _)
SearchPos(sorted, current, k) ==
    IF k < Len(sorted) /\ compareIPs(sorted[k + 1], current)
    THEN SearchPos(sorted, current, k + 1)
    ELSE k

\* One pass of the outer while of sortIPList: link current into sorted.
InsertSorted(sorted, current) ==
    IF sorted = <<>> \/ compareIPs(current, sorted[1])
    THEN <<current>> \o sorted
    ELSE LET k == SearchPos(sorted, current, 1)
         IN SubSeq(sorted, 1, k) \o <<current>> \o SubSeq(sorted, k + 1, Len(sorted))

RECURSIVE SortLoop(_, _)
SortLoop(sorted, rest) ==
    IF rest = <<>> THEN sorted
    ELSE SortLoop(InsertSorted(sorted, Head(rest)), Tail(rest))

\* Mutant: every node is linked at the front (the list is only reversed).
sortIPList_NoSearch(head) ==
    [i \in 1..Len(head) |-> head[Len(head) + 1 - i]]

\* 3.7 sortIPList: insertion sort of the list, ascending by compareIPs.
sortIPList(head) ==
    IF Len(head) <= 1 THEN head
    ELSE SortLoop(<<>>, head)

(***************************** Act5.2: state *******************************)
VARIABLES
    hashTable,   \* NetworkInfo hashTable[TABLE_SIZE]
    itemCount,   \* int itemCount
    pc52,        \* position of main: "ingest", "query", "done", "exit1"
    nread52,     \* lines of bitacora.txt read so far
    n52,         \* int n, the query count read from standard input
    i52,         \* loop variable i of the query loop
    out52,       \* lines written to standard output
    calls52,     \* history: every insertOrUpdate call, with its return value
    asked52      \* history: every query, where its answer starts, search result

vars52 ==
    <<hashTable, itemCount, pc52, nread52, n52, i52, out52, calls52, asked52>>

(***************************** Act4.3: state *******************************)
VARIABLES
    hostTable,     \* Host hostTable[TABLE_SIZE]
    networkTable,  \* Network networkTable[TABLE_SIZE]
    pc43,          \* position of main: "ingest", "done", "exit1"
    nread43,       \* lines of bitacora.txt read so far
    out43,         \* lines written to standard output
    seen43,        \* history: the IP of every line the reading loop completed
    read43         \* history: every line the reading loop completed

vars43 ==
    <<hostTable, networkTable, pc43, nread43, out43, seen43, read43>>

(***************************** pure functions: state ***********************)
VARIABLES
    fnName,   \* the function under test: "compareIPs", "sortIPList" or "none"
    fnPc,     \* "call" before it is applied, "done" after, "off" when unused
    fnArgs,   \* the arguments: an address as its four octet numbers or as
              \* its text, a date as its five numbers
    cmpRes,   \* the value compareIPs returned
    sortRes,  \* the list sortIPList left
    fnRes     \* the value extractNetwork, total_time or the key comparison
              \* returned, <<>> before

varsFn ==
    <<fnName, fnPc, fnArgs, cmpRes, sortRes, fnRes>>

(***************************** Act2.3: state *******************************)
VARIABLES
    nodes23,  \* the Node objects in the order of their creation: node n is
              \* nodes23[n] = [data, prev, next], pointer 0 is nullptr
    head23,   \* Node* head
    tail23,   \* Node* tail
    pc23,     \* position of main: "read", "sorted", "done"
    file23,   \* the lines of SortedData.txt
    range23,  \* the two addresses read from standard input, <<>> before
    out23     \* lines written to standard output

vars23 ==
    <<nodes23, head23, tail23, pc23, file23, range23, out23>>

(***************************** Act3_4: state *******************************)
VARIABLES
    ipMap34,  \* map<IPKey, vector<entry>> ipMap, as its pairs in key order
    pc34,     \* position of main: "read", "done"
    nread34,  \* lines of bitacora.txt read so far
    out34,    \* lines written to standard output
    seen34    \* history: how many times each line of the file was read

vars34 ==
    <<ipMap34, pc34, nread34, out34, seen34>>

vars ==
    <<vars52, vars43, varsFn, vars23, vars34>>

(***************************** Act5.2: constants ***************************)
\* A slot as main's initialisation loop (4.1) leaves it.
EmptySlot ==
    [occupied |-> FALSE, network |-> <<>>, accessCount |-> 0,
     uniqueIPs |-> <<>>, connectionCount |-> 0]

\* The literal printed for a network that is not in the table.
RedNoEncontrada ==
    S(<<"R", "e", "d", " ", "n", "o", " ", "e", "n", "c", "o", "n", "t", "r", "a", "d", "a">>)

\* The fourth field ("IP:PUERTO") of the lines the file may hold.
IpPorts52 ==
    { S(<<"1", ".", "1", ".", "0", ".", "1", "0">>),
      S(<<"1", ".", "1", ".", "0", ".", "9", ":", "8", "0">>),
      S(<<"1", ".", "2", ".", "0", ".", "1">>),
      S(<<"1", "0", ".", "1", ".", "0", ".", "1">>),
      S(<<"9", ".", "9", ".", "9", ".", "9">>),
      S(<<"7", ".", "7">>) }

\* The network identifiers a query may ask for.
Queries52 ==
    { S(<<"1", ".", "1">>),
      S(<<"9", ".", "9">>),
      S(<<"2", ".", "2">>) }

(***************************** Act5.2: table operations ********************)
\* The while loop of insertOrUpdate. The result is the return value with the
\* table and the counter as the call leaves them.
RECURSIVE InsertProbe(_, _, _, _, _, _, _)
InsertProbe(tbl, cnt, network, ip, index, originalIndex, probeCount) ==
    IF probeCount >= TABLE_SIZE
    THEN [ok |-> FALSE, table |-> tbl, itemCount |-> cnt]
    ELSE IF ~tbl[index].occupied
    THEN [ok |-> TRUE,
          table |-> [tbl EXCEPT ![index] =
                        [occupied |-> TRUE, network |-> network, accessCount |-> 1,
                         uniqueIPs |-> addIP(<<>>, ip), connectionCount |-> 1]],
          itemCount |-> cnt + 1]
    ELSE IF tbl[index].network = network
    THEN [ok |-> TRUE,
          table |-> [tbl EXCEPT ![index] =
                        [@ EXCEPT !.accessCount = @ + 1,
                                  !.uniqueIPs =
                                      IF ipExists(tbl[index].uniqueIPs, ip)
                                      THEN @ ELSE addIP(@, ip),
                                  !.connectionCount =
                                      IF ipExists(tbl[index].uniqueIPs, ip)
                                      THEN @ ELSE @ + 1]],
          itemCount |-> cnt]
    ELSE LET next == (index + 1) % TABLE_SIZE
         IN IF next = originalIndex
            THEN [ok |-> FALSE, table |-> tbl, itemCount |-> cnt]
            ELSE InsertProbe(tbl, cnt, network, ip, next, originalIndex, probeCount + 1)

\* Mutant: a slot holding the same network is passed over like a collision.
RECURSIVE InsertProbeNoReuse(_, _, _, _, _, _)
InsertProbeNoReuse(tbl, cnt, network, ip, index, probeCount) ==
    IF probeCount >= TABLE_SIZE
    THEN [ok |-> FALSE, table |-> tbl, itemCount |-> cnt]
    ELSE IF ~tbl[index].occupied
    THEN [ok |-> TRUE,
          table |-> [tbl EXCEPT ![index] =
                        [occupied |-> TRUE, network |-> network, accessCount |-> 1,
                         uniqueIPs |-> addIP(<<>>, ip), connectionCount |-> 1]],
          itemCount |-> cnt + 1]
    ELSE InsertProbeNoReuse(tbl, cnt, network, ip, (index + 1) % TABLE_SIZE,
                            probeCount + 1)

\* Mutant: a slot holding the same network is written anew, as if created.
RECURSIVE InsertProbeOverwrite(_, _, _, _, _, _, _)
InsertProbeOverwrite(tbl, cnt, network, ip, index, originalIndex, probeCount) ==
    IF probeCount >= TABLE_SIZE
    THEN [ok |-> FALSE, table |-> tbl, itemCount |-> cnt]
    ELSE IF ~tbl[index].occupied
    THEN [ok |-> TRUE,
          table |-> [tbl EXCEPT ![index] =
                        [occupied |-> TRUE, network |-> network, accessCount |-> 1,
                         uniqueIPs |-> addIP(<<>>, ip), connectionCount |-> 1]],
          itemCount |-> cnt + 1]
    ELSE IF tbl[index].network = network
    THEN [ok |-> TRUE,
          table |-> [tbl EXCEPT ![index] =
                        [occupied |-> TRUE, network |-> network, accessCount |-> 1,
                         uniqueIPs |-> addIP(<<>>, ip), connectionCount |-> 1]],
          itemCount |-> cnt]
    ELSE LET next == (index + 1) % TABLE_SIZE
         IN IF next = originalIndex
            THEN [ok |-> FALSE, table |-> tbl, itemCount |-> cnt]
            ELSE InsertProbeOverwrite(tbl, cnt, network, ip, next, originalIndex,
                                      probeCount + 1)

insertOrUpdate_Overwrite(tbl, cnt, network, ip) ==
    IF cnt >= TABLE_SIZE
    THEN [ok |-> FALSE, table |-> tbl, itemCount |-> cnt]
    ELSE InsertProbeOverwrite(tbl, cnt, network, ip, hashFunction(network),
                              hashFunction(network), 0)

\* Mutant: itemCount is incremented on the update path too.
RECURSIVE InsertProbeCountAll(_, _, _, _, _, _, _)
InsertProbeCountAll(tbl, cnt, network, ip, index, originalIndex, probeCount) ==
    IF probeCount >= TABLE_SIZE
    THEN [ok |-> FALSE, table |-> tbl, itemCount |-> cnt]
    ELSE IF ~tbl[index].occupied
    THEN [ok |-> TRUE,
          table |-> [tbl EXCEPT ![index] =
                        [occupied |-> TRUE, network |-> network, accessCount |-> 1,
                         uniqueIPs |-> addIP(<<>>, ip), connectionCount |-> 1]],
          itemCount |-> cnt + 1]
    ELSE IF tbl[index].network = network
    THEN [ok |-> TRUE,
          table |-> [tbl EXCEPT ![index] =
                        [@ EXCEPT !.accessCount = @ + 1,
                                  !.uniqueIPs =
                                      IF ipExists(tbl[index].uniqueIPs, ip)
                                      THEN @ ELSE addIP(@, ip),
                                  !.connectionCount =
                                      IF ipExists(tbl[index].uniqueIPs, ip)
                                      THEN @ ELSE @ + 1]],
          itemCount |-> cnt + 1]
    ELSE LET next == (index + 1) % TABLE_SIZE
         IN IF next = originalIndex
            THEN [ok |-> FALSE, table |-> tbl, itemCount |-> cnt]
            ELSE InsertProbeCountAll(tbl, cnt, network, ip, next, originalIndex,
                                     probeCount + 1)

insertOrUpdate_CountAll(tbl, cnt, network, ip) ==
    IF cnt >= TABLE_SIZE
    THEN [ok |-> FALSE, table |-> tbl, itemCount |-> cnt]
    ELSE InsertProbeCountAll(tbl, cnt, network, ip, hashFunction(network),
                             hashFunction(network), 0)

insertOrUpdate_NoReuse(tbl, cnt, network, ip) ==
    IF cnt >= TABLE_SIZE
    THEN [ok |-> FALSE, table |-> tbl, itemCount |-> cnt]
    ELSE InsertProbeNoReuse(tbl, cnt, network, ip, hashFunction(network), 0)

\* 3.8 insertOrUpdate(network, ip) on table tbl with counter cnt.
insertOrUpdate(tbl, cnt, network, ip) ==
    IF cnt >= TABLE_SIZE
    THEN [ok |-> FALSE, table |-> tbl, itemCount |-> cnt]
    ELSE InsertProbe(tbl, cnt, network, ip, hashFunction(network),
                     hashFunction(network), 0)

\* The while loop of searchNetwork.
RECURSIVE SearchProbe(_, _, _, _, _)
SearchProbe(tbl, network, index, originalIndex, probeCount) ==
    IF probeCount >= TABLE_SIZE THEN -1
    ELSE IF ~tbl[index].occupied THEN -1
    ELSE IF tbl[index].network = network THEN index
    ELSE LET next == (index + 1) % TABLE_SIZE
         IN IF next = originalIndex THEN -1
            ELSE SearchProbe(tbl, network, next, originalIndex, probeCount + 1)

\* Mutant: only the home slot is looked at, no probing.
searchNetwork_NoProbe(tbl, network) ==
    LET index == hashFunction(network)
    IN IF tbl[index].occupied /\ tbl[index].network = network THEN index ELSE -1

\* Mutant: an occupied home slot is returned without comparing its key.
searchNetwork_AnyKey(tbl, network) ==
    LET index == hashFunction(network)
    IN IF tbl[index].occupied /\ tbl[index].network # network THEN index
       ELSE SearchProbe(tbl, network, index, index, 0)

\* 3.9 searchNetwork(network) on table tbl: the index of the slot, or -1.
searchNetwork(tbl, network) ==
    SearchProbe(tbl, network, hashFunction(network), hashFunction(network), 0)

\* A uniqueIPs pointer after freeIPList: every node of the list has been
\* deleted and the pointer, passed by value, still holds the old address.
\* No IP string can be read through it; -1 is the code of no character.
FreedList ==
    << <<-1>> >>

\* 3.10 freeIPList(head): every node from head on is deleted. On the empty
\* list (head == NULL) the loop does nothing and the list stays empty.
freeIPList(head) ==
    IF head = <<>> THEN <<>> ELSE FreedList

\* The loop of main that calls freeIPList on the list of every occupied
\* slot (before return 1, and as 4.5 before return 0).
ReleaseLists52(tbl) ==
    [i \in 0..(TABLE_SIZE - 1) |->
        IF tbl[i].occupied THEN [tbl[i] EXCEPT !.uniqueIPs = freeIPList(@)]
        ELSE tbl[i]]

(***************************** Act5.2: main ********************************)
\* 4.1 initialisation of the table; the file is open and nothing is read.
Init52 ==
    /\ hashTable = [i \in 0..(TABLE_SIZE - 1) |-> EmptySlot]
    /\ itemCount = 0
    /\ pc52 = "ingest"
    /\ nread52 = 0
    /\ n52 = 0
    /\ i52 = 0
    /\ out52 = <<>>
    /\ calls52 = <<>>
    /\ asked52 = <<>>

\* The IP of an "IP:PUERTO" field: the text before the colon, if any.
IpOfField(ipPort) ==
    LET colonPos == Find(ipPort, Ascii[":"], 1)
    IN IF colonPos # 0 THEN SubSeq(ipPort, 1, colonPos - 1) ELSE ipPort

\* 4.3 one pass of the reading loop for a line whose fourth field is ipPort.
\* A failed insertOrUpdate ends the run with status 1, after every list has
\* been released.
ReadLine52(ipPort) ==
    /\ pc52 = "ingest"
    /\ nread52 < MaxLines
    /\ nread52' = nread52 + 1
    /\ LET ip == IpOfField(ipPort)
           network == extractNetwork(ip)
           r == insertOrUpdate(hashTable, itemCount, network, ip)
       IN IF network # <<>>
          THEN /\ hashTable' = IF r.ok THEN r.table ELSE ReleaseLists52(r.table)
               /\ itemCount' = r.itemCount
               /\ pc52' = IF r.ok THEN "ingest" ELSE "exit1"
               /\ calls52' = Append(calls52, [network |-> network, ip |-> ip, ok |-> r.ok])
          ELSE UNCHANGED <<hashTable, itemCount, pc52, calls52>>
    /\ UNCHANGED <<n52, i52, out52, asked52>>
    /\ UNCHANGED <<vars43, varsFn, vars23, vars34>>

\* End of file: file.close() and cin >> n.
ReadCount52(n) ==
    /\ pc52 = "ingest"
    /\ pc52' = "query"
    /\ n52' = n
    /\ i52' = 0
    /\ UNCHANGED <<hashTable, itemCount, nread52, out52, calls52, asked52>>
    /\ UNCHANGED <<vars43, varsFn, vars23, vars34>>

\* The lines of the answer for a network found at slot index of table tbl
\* (the uniqueIPs list is already sorted).
FoundAnswer(tbl, index) ==
    <<tbl[index].network, IntToStr(tbl[index].accessCount),
      IntToStr(tbl[index].connectionCount)>> \o tbl[index].uniqueIPs

\* Mutant: the blank line is printed after every answer, the last included.
Query52_BlankAfterEach(queryNetwork) ==
    /\ pc52 = "query"
    /\ i52 < n52
    /\ LET index == searchNetwork(hashTable, queryNetwork)
           sortedTable == IF index = -1 THEN hashTable
                          ELSE [hashTable EXCEPT ![index].uniqueIPs = sortIPList(@)]
           answer == IF index = -1 THEN <<queryNetwork, RedNoEncontrada>>
                     ELSE FoundAnswer(sortedTable, index)
       IN /\ hashTable' = sortedTable
          /\ out52' = out52 \o answer \o <<(<<>>)>>
          /\ asked52' = Append(asked52, [query |-> queryNetwork,
                                         at |-> Len(out52) + 1, index |-> index])
    /\ i52' = i52 + 1
    /\ UNCHANGED <<itemCount, pc52, nread52, n52, calls52>>
    /\ UNCHANGED <<vars43, varsFn, vars23, vars34>>

\* Mutant: a query that finds its network counts as an access to it.
Query52_CountsAccess(queryNetwork) ==
    /\ pc52 = "query"
    /\ i52 < n52
    /\ LET index == searchNetwork(hashTable, queryNetwork)
           sortedTable == IF index = -1 THEN hashTable
                          ELSE [hashTable EXCEPT ![index].uniqueIPs = sortIPList(@),
                                                 ![index].accessCount = @ + 1]
           answer == IF index = -1 THEN <<queryNetwork, RedNoEncontrada>>
                     ELSE FoundAnswer(sortedTable, index)
           blank == IF i52 < n52 - 1 THEN <<(<<>>)>> ELSE <<>>
       IN /\ hashTable' = sortedTable
          /\ out52' = out52 \o answer \o blank
          /\ asked52' = Append(asked52, [query |-> queryNetwork,
                                         at |-> Len(out52) + 1, index |-> index])
    /\ i52' = i52 + 1
    /\ UNCHANGED <<itemCount, pc52, nread52, n52, calls52>>
    /\ UNCHANGED <<vars43, varsFn, vars23, vars34>>

\* 4.4 one pass of the query loop for the query string queryNetwork.
Query52(queryNetwork) ==
    /\ pc52 = "query"
    /\ i52 < n52
    /\ LET index == searchNetwork(hashTable, queryNetwork)
           sortedTable == IF index = -1 THEN hashTable
                          ELSE [hashTable EXCEPT ![index].uniqueIPs = sortIPList(@)]
           answer == IF index = -1 THEN <<queryNetwork, RedNoEncontrada>>
                     ELSE FoundAnswer(sortedTable, index)
           blank == IF i52 < n52 - 1 THEN <<(<<>>)>> ELSE <<>>
       IN /\ hashTable' = sortedTable
          /\ out52' = out52 \o answer \o blank
          /\ asked52' = Append(asked52, [query |-> queryNetwork,
                                         at |-> Len(out52) + 1, index |-> index])
    /\ i52' = i52 + 1
    /\ UNCHANGED <<itemCount, pc52, nread52, n52, calls52>>
    /\ UNCHANGED <<vars43, varsFn, vars23, vars34>>

\* The query loop ends (i < n is false, at once for an n below 1): 4.5
\* releases the lists and main returns 0. The slots keep their keys and
\* counters.
Finish52 ==
    /\ pc52 = "query"
    /\ i52 >= n52
    /\ hashTable' = ReleaseLists52(hashTable)
    /\ pc52' = "done"
    /\ UNCHANGED <<itemCount, nread52, n52, i52, out52, calls52, asked52>>
    /\ UNCHANGED <<vars43, varsFn, vars23, vars34>>

\* Entry() as new Entry[n] constructs it: four empty strings.
NoEntry ==
    [date |-> <<>>, time |-> <<>>, port |-> <<>>, message |-> <<>>]

\* The slots as main's initialisation loop (4.1) leaves them.
EmptyHost ==
    [ip |-> <<>>, entries |-> <<>>, entryCount |-> 0, entryCap |-> 0, used |-> FALSE]

EmptyNetwork ==
    [prefix |-> <<>>, uniqueHostCount |-> 0, used |-> FALSE]

\* A tokenised line: month, day, time and "IP:PORT" fields, then the message.
Line43(ipPort) ==
    [month |-> S(<<"J", "u", "l">>), day |-> S(<<"1", "8">>),
     timeStr |-> S(<<"0", "7", ":", "5", "3", ":", "2", "2">>), ipPort |-> ipPort,
     message |-> S(<<"o", "k">>)]

\* The lines the file may hold.
Lines43 ==
    { Line43(f) : f \in
        { S(<<"1", ".", "1", ".", "0", ".", "1", "0", ":", "8", "0">>),
          S(<<"1", ".", "1", ".", "0", ".", "9">>),
          S(<<"1", ".", "2", ".", "0", ".", "1">>),
          S(<<"1", "0", ".", "1", ".", "0", ".", "1">>),
          S(<<"9", ".", "9", ".", "9", ".", "9">>),
          S(<<"7", ".", "7">>) } }

(***************************** Act4.3: helpers *****************************)
\* An unsigned 32-bit value is held as its two 16-bit halves [hi, lo], so
\* that every intermediate product stays small; W16 is 2^16.
W16 ==
    65536

\* The value h modulo m (m small), for h held as its halves.
Mod32(h, m) ==
    ((h.hi % m) * (W16 % m) + (h.lo % m)) % m

\* 3.1 hashString: h = h * 131u + s[i] in unsigned 32-bit arithmetic.
RECURSIVE HashStringFrom(_, _, _)
HashStringFrom(s, i, h) ==
    IF i > Len(s) THEN h
    ELSE LET low == h.lo * 131 + s[i]
         IN HashStringFrom(s, i + 1,
                [hi |-> (h.hi * 131 + (low \div W16)) % W16, lo |-> low % W16])

hashString(s) ==
    HashStringFrom(s, 1, [hi |-> 0, lo |-> 0])

\* 3.2 prefixFromIP: the text before the second dot, the IP itself with
\* fewer than two dots.
prefixFromIP(ip) ==
    LET p1 == Find(ip, Ascii["."], 1)
        p2 == IF p1 = 0 THEN 0 ELSE Find(ip, Ascii["."], p1 + 1)
    IN IF p1 = 0 THEN ip
       ELSE IF p2 = 0 THEN ip
       ELSE SubSeq(ip, 1, p2 - 1)

\* The while loop of getNetworkIndex; full is the exit(1) after the loop.
RECURSIVE NetworkProbe(_, _, _, _)
NetworkProbe(tbl, prefix, h, pasos) ==
    IF pasos >= TABLE_SIZE_43
    THEN [full |-> TRUE, index |-> h, table |-> tbl]
    ELSE IF ~tbl[h].used
    THEN [full |-> FALSE, index |-> h,
          table |-> [tbl EXCEPT ![h] =
                        [prefix |-> prefix, uniqueHostCount |-> 0, used |-> TRUE]]]
    ELSE IF tbl[h].prefix = prefix
    THEN [full |-> FALSE, index |-> h, table |-> tbl]
    ELSE NetworkProbe(tbl, prefix, IF h + 1 = TABLE_SIZE_43 THEN 0 ELSE h + 1, pasos + 1)

\* 3.3 getNetworkIndex(prefix) on table tbl.
getNetworkIndex(tbl, prefix) ==
    NetworkProbe(tbl, prefix, Mod32(hashString(prefix), TABLE_SIZE_43), 0)

\* The while loop of getHostIndex; full is the exit(1) after the loop.
RECURSIVE HostProbe(_, _, _, _)
HostProbe(tbl, ip, h, pasos) ==
    IF pasos >= TABLE_SIZE_43
    THEN [full |-> TRUE, index |-> h, isNew |-> FALSE, table |-> tbl]
    ELSE IF ~tbl[h].used
    THEN [full |-> FALSE, index |-> h, isNew |-> TRUE,
          table |-> [tbl EXCEPT ![h] =
                        [ip |-> ip, entries |-> [k \in 1..10 |-> NoEntry],
                         entryCount |-> 0, entryCap |-> 10, used |-> TRUE]]]
    ELSE IF tbl[h].ip = ip
    THEN [full |-> FALSE, index |-> h, isNew |-> FALSE, table |-> tbl]
    ELSE HostProbe(tbl, ip, IF h + 1 = TABLE_SIZE_43 THEN 0 ELSE h + 1, pasos + 1)

\* Mutant: a slot holding the same IP is passed over like a collision.
RECURSIVE HostProbeNoReuse(_, _, _, _)
HostProbeNoReuse(tbl, ip, h, pasos) ==
    IF pasos >= TABLE_SIZE_43
    THEN [full |-> TRUE, index |-> h, isNew |-> FALSE, table |-> tbl]
    ELSE IF ~tbl[h].used
    THEN [full |-> FALSE, index |-> h, isNew |-> TRUE,
          table |-> [tbl EXCEPT ![h] =
                        [ip |-> ip, entries |-> [k \in 1..10 |-> NoEntry],
                         entryCount |-> 0, entryCap |-> 10, used |-> TRUE]]]
    ELSE HostProbeNoReuse(tbl, ip, IF h + 1 = TABLE_SIZE_43 THEN 0 ELSE h + 1, pasos + 1)

\* Mutant: after a collision the probe moves on by two slots, not by one.
RECURSIVE HostProbeStepTwo(_, _, _, _)
HostProbeStepTwo(tbl, ip, h, pasos) ==
    IF pasos >= TABLE_SIZE_43
    THEN [full |-> TRUE, index |-> h, isNew |-> FALSE, table |-> tbl]
    ELSE IF ~tbl[h].used
    THEN [full |-> FALSE, index |-> h, isNew |-> TRUE,
          table |-> [tbl EXCEPT ![h] =
                        [ip |-> ip, entries |-> [k \in 1..10 |-> NoEntry],
                         entryCount |-> 0, entryCap |-> 10, used |-> TRUE]]]
    ELSE IF tbl[h].ip = ip
    THEN [full |-> FALSE, index |-> h, isNew |-> FALSE, table |-> tbl]
    ELSE HostProbeStepTwo(tbl, ip, (h + 2) % TABLE_SIZE_43, pasos + 1)

getHostIndex_StepTwo(tbl, ip) ==
    HostProbeStepTwo(tbl, ip, Mod32(hashString(ip), TABLE_SIZE_43), 0)

getHostIndex_NoReuse(tbl, ip) ==
    HostProbeNoReuse(tbl, ip, Mod32(hashString(ip), TABLE_SIZE_43), 0)

\* 3.4 getHostIndex(ip, isNew) on table tbl.
getHostIndex(tbl, ip) ==
    HostProbe(tbl, ip, Mod32(hashString(ip), TABLE_SIZE_43), 0)

\* Mutant: the doubled array is left empty, the old entries are not copied.
AppendEntry_NoCopy(h, e) ==
    LET newCap == IF h.entryCap = 0 THEN 10 ELSE h.entryCap * 2
        grown == IF h.entryCount = h.entryCap
                 THEN [h EXCEPT !.entries = [k \in 1..newCap |-> NoEntry],
                                !.entryCap = newCap]
                 ELSE h
    IN [grown EXCEPT !.entries[grown.entryCount + 1] = e,
                     !.entryCount = @ + 1]

\* Mutant: a full array is not doubled, the entry is counted all the same.
AppendEntry_NoGrow(h, e) ==
    [h EXCEPT !.entries = IF h.entryCount < h.entryCap
                          THEN [@ EXCEPT ![h.entryCount + 1] = e] ELSE @,
              !.entryCount = @ + 1]

\* 4.3.5 the entry is written at entries[entryCount], after the array has
\* been doubled when it is full.
AppendEntry(h, e) ==
    LET newCap == IF h.entryCap = 0 THEN 10 ELSE h.entryCap * 2
        grown == IF h.entryCount = h.entryCap
                 THEN [h EXCEPT !.entries =
                                    [k \in 1..newCap |->
                                        IF k <= h.entryCount THEN h.entries[k] ELSE NoEntry],
                                !.entryCap = newCap]
                 ELSE h
    IN [grown EXCEPT !.entries[grown.entryCount + 1] = e,
                     !.entryCount = @ + 1]

(***************************** Act4.3: main ********************************)
\* Mutant: uniqueHostCount is incremented for every line, new host or not.
IngestLine43_AlwaysCount(hosts, nets, line) ==
    LET colonPos == Find(line.ipPort, Ascii[":"], 1)
        ip == IF colonPos # 0 THEN SubSeq(line.ipPort, 1, colonPos - 1) ELSE line.ipPort
        port == IF colonPos # 0
                THEN SubSeq(line.ipPort, colonPos + 1, Len(line.ipPort)) ELSE <<>>
        prefix == prefixFromIP(ip)
        hr == getHostIndex(hosts, ip)
        nr == getNetworkIndex(nets, prefix)
        e == [date |-> line.month \o <<Ascii[" "]>> \o line.day, time |-> line.timeStr,
              port |-> port, message |-> line.message]
    IN IF hr.full \/ nr.full
       THEN [exit |-> TRUE, hostTable |-> hr.table, networkTable |-> nets]
       ELSE [exit |-> FALSE,
             hostTable |-> [hr.table EXCEPT ![hr.index] = AppendEntry(@, e)],
             networkTable |-> [nr.table EXCEPT ![nr.index].uniqueHostCount = @ + 1]]

\* 4.3 the body of the reading loop for one tokenised line, on the two
\* tables: exit is the exit(1) of a full table. getNetworkIndex is called
\* only for a new host.
IngestLine43(hosts, nets, line) ==
    LET colonPos == Find(line.ipPort, Ascii[":"], 1)
        ip == IF colonPos # 0 THEN SubSeq(line.ipPort, 1, colonPos - 1) ELSE line.ipPort
        port == IF colonPos # 0
                THEN SubSeq(line.ipPort, colonPos + 1, Len(line.ipPort)) ELSE <<>>
        prefix == prefixFromIP(ip)
        hr == getHostIndex(hosts, ip)
        nr == getNetworkIndex(nets, prefix)
        e == [date |-> line.month \o <<Ascii[" "]>> \o line.day, time |-> line.timeStr,
              port |-> port, message |-> line.message]
    IN IF hr.full
       THEN [exit |-> TRUE, hostTable |-> hr.table, networkTable |-> nets]
       ELSE IF hr.isNew /\ nr.full
       THEN [exit |-> TRUE, hostTable |-> hr.table, networkTable |-> nr.table]
       ELSE [exit |-> FALSE,
             hostTable |-> [hr.table EXCEPT ![hr.index] = AppendEntry(@, e)],
             networkTable |->
                 IF hr.isNew
                 THEN [nr.table EXCEPT ![nr.index].uniqueHostCount = @ + 1]
                 ELSE nets]

\* 4.4 first scan: the largest uniqueHostCount of a used slot, from slot i on.
RECURSIVE MaxHostsFrom(_, _, _)
MaxHostsFrom(nets, i, maxHosts) ==
    IF i >= TABLE_SIZE_43 THEN maxHosts
    ELSE MaxHostsFrom(nets, i + 1,
             IF nets[i].used /\ nets[i].uniqueHostCount > maxHosts
             THEN nets[i].uniqueHostCount ELSE maxHosts)

\* 4.4 second scan: the prefix of every used slot with that count, in slot order.
RECURSIVE NetworksWith(_, _, _)
NetworksWith(nets, i, maxHosts) ==
    IF i >= TABLE_SIZE_43 THEN <<>>
    ELSE (IF nets[i].used /\ nets[i].uniqueHostCount = maxHosts
          THEN <<nets[i].prefix>> ELSE <<>>) \o NetworksWith(nets, i + 1, maxHosts)

\* 4.5 first scan: the largest entryCount of a used slot, from slot i on.
RECURSIVE MaxEntriesFrom(_, _, _)
MaxEntriesFrom(hosts, i, maxEntries) ==
    IF i >= TABLE_SIZE_43 THEN maxEntries
    ELSE MaxEntriesFrom(hosts, i + 1,
             IF hosts[i].used /\ hosts[i].entryCount > maxEntries
             THEN hosts[i].entryCount ELSE maxEntries)

\* 4.5 second scan: the IP of every used slot with that count, in slot order.
RECURSIVE HostsWith(_, _, _)
HostsWith(hosts, i, maxEntries) ==
    IF i >= TABLE_SIZE_43 THEN <<>>
    ELSE (IF hosts[i].used /\ hosts[i].entryCount = maxEntries
          THEN <<hosts[i].ip>> ELSE <<>>) \o HostsWith(hosts, i + 1, maxEntries)

\* Mutant: only the first network and the first host at the maximum are printed.
Report43_FirstOnly(hosts, nets) ==
    LET ns == NetworksWith(nets, 0, MaxHostsFrom(nets, 0, 0))
        hs == HostsWith(hosts, 0, MaxEntriesFrom(hosts, 0, 0))
    IN (IF ns = <<>> THEN <<>> ELSE <<Head(ns)>>) \o <<(<<>>)>>
       \o (IF hs = <<>> THEN <<>> ELSE <<Head(hs)>>)

\* 4.4 and 4.5: the lines of the report, a blank line between the two parts.
Report43(hosts, nets) ==
    NetworksWith(nets, 0, MaxHostsFrom(nets, 0, 0)) \o <<(<<>>)>>
    \o HostsWith(hosts, 0, MaxEntriesFrom(hosts, 0, 0))

\* 4.1 initialisation of the tables; the file is open and nothing is read.
Init43 ==
    /\ hostTable = [i \in 0..(TABLE_SIZE_43 - 1) |-> EmptyHost]
    /\ networkTable = [i \in 0..(TABLE_SIZE_43 - 1) |-> EmptyNetwork]
    /\ pc43 = "ingest"
    /\ nread43 = 0
    /\ out43 = <<>>
    /\ seen43 = <<>>
    /\ read43 = <<>>

\* 4.3 one pass of the reading loop.
ReadLine43(line) ==
    /\ pc43 = "ingest"
    /\ nread43 < MaxLines43
    /\ nread43' = nread43 + 1
    /\ LET r == IngestLine43(hostTable, networkTable, line)
       IN /\ hostTable' = r.hostTable
          /\ networkTable' = r.networkTable
          /\ pc43' = IF r.exit THEN "exit1" ELSE "ingest"
          /\ seen43' = IF r.exit THEN seen43 ELSE Append(seen43, IpOfField(line.ipPort))
          /\ read43' = IF r.exit THEN read43 ELSE Append(read43, line)
    /\ UNCHANGED out43
    /\ UNCHANGED <<vars52, varsFn, vars23, vars34>>

\* The lines of a file that holds one host only, with two ports.
LinesGrow43 ==
    { Line43(f) : f \in
        { S(<<"1", ".", "1", ".", "0", ".", "1", "0", ":", "8", "0">>),
          S(<<"1", ".", "1", ".", "0", ".", "1", "0", ":", "8", "1">>) } }

\* 4.3 one pass of the reading loop on the longer file of one host.
ReadLineGrow43(line) ==
    /\ pc43 = "ingest"
    /\ nread43 < MaxLinesGrow43
    /\ nread43' = nread43 + 1
    /\ LET r == IngestLine43(hostTable, networkTable, line)
       IN /\ hostTable' = r.hostTable
          /\ networkTable' = r.networkTable
          /\ pc43' = IF r.exit THEN "exit1" ELSE "ingest"
          /\ seen43' = IF r.exit THEN seen43 ELSE Append(seen43, IpOfField(line.ipPort))
          /\ read43' = IF r.exit THEN read43 ELSE Append(read43, line)
    /\ UNCHANGED out43
    /\ UNCHANGED <<vars52, varsFn, vars23, vars34>>

\* End of file: 4.4 and 4.5 print the report, 4.6 releases every entries
\* array and main returns 0.
Finish43 ==
    /\ pc43 = "ingest"
    /\ out43' = Report43(hostTable, networkTable)
    /\ hostTable' = [i \in 0..(TABLE_SIZE_43 - 1) |->
                        IF hostTable[i].used THEN [hostTable[i] EXCEPT !.entries = <<>>]
                        ELSE hostTable[i]]
    /\ pc43' = "done"
    /\ UNCHANGED <<networkTable, nread43, seen43, read43>>
    /\ UNCHANGED <<vars52, varsFn, vars23, vars34>>

(***************************** Act2.3: helpers *****************************)
\* s.substr(pos, n) with a 0-based pos <= s.size(); n may pass the end.
Substr(s, pos, n) ==
    SubSeq(s, pos + 1, IF pos + n > Len(s) THEN Len(s) ELSE pos + n)

\* std::stoi on a text that starts with a digit: the value of the leading run
\* of digits (a text without one throws; the lines of the model have none).
RECURSIVE StoiFrom(_, _, _)
StoiFrom(s, i, value) ==
    IF i > Len(s) THEN value
    ELSE IF s[i] < Ascii["0"] \/ s[i] > Ascii["9"] THEN value
    ELSE StoiFrom(s, i + 1, value * 10 + (s[i] - Ascii["0"]))

stoi(s) ==
    StoiFrom(s, 1, 0)

\* operator< of std::string: the first differing character decides, a proper
\* prefix is smaller.
RECURSIVE StrLessFrom(_, _, _)
StrLessFrom(a, b, i) ==
    IF i > Len(a) \/ i > Len(b) THEN Len(a) < Len(b)
    ELSE IF a[i] # b[i] THEN a[i] < b[i]
    ELSE StrLessFrom(a, b, i + 1)

StrLess(a, b) ==
    StrLessFrom(a, b, 1)

\* The table of months_int.
Months ==
    << S(<<"J", "a", "n">>), S(<<"F", "e", "b">>), S(<<"M", "a", "r">>),
       S(<<"A", "p", "r">>), S(<<"M", "a", "y">>), S(<<"J", "u", "n">>),
       S(<<"J", "u", "l">>), S(<<"A", "u", "g">>), S(<<"S", "e", "p">>),
       S(<<"O", "c", "t">>), S(<<"N", "o", "v">>), S(<<"D", "e", "c">>) >>

\* 2.1 months_int: the number of the month, -1 for an unknown abbreviation.
months_int(month) ==
    IF \E i \in 1..12 : Months[i] = month
    THEN CHOOSE i \in 1..12 : Months[i] = month
    ELSE -1

\* 2.2 tokenizer(s, pos): the token up to the next space and the position
\* after it (pos is 0-based, as in the source).
tokenizer(s, pos) ==
    IF pos >= Len(s) THEN [token |-> <<>>, pos |-> pos]
    ELSE LET found == Find(s, Ascii[" "], pos + 1)
         IN IF found = 0
            THEN [token |-> Substr(s, pos, Len(s)), pos |-> Len(s)]
            ELSE [token |-> Substr(s, pos, (found - 1) - pos), pos |-> found]

\* One of the first three octets of splitIp: next = ipStr.find('.', pos), the
\* number in substr(pos, next - pos) and the pos after it. next is npos (0
\* here) or the 1-based place of the dot; pos is 0-based.
OctetAt(ipStr, pos) ==
    LET next == Find(ipStr, Ascii["."], pos + 1)
    IN IF next = 0
       THEN [value |-> stoi(Substr(ipStr, pos, Len(ipStr))), pos |-> Len(ipStr)]
       ELSE [value |-> stoi(Substr(ipStr, pos, (next - 1) - pos)), pos |-> next]

\* The four octets of ipStr, the fourth being the rest of the text; p is the
\* port splitIp has already set.
SplitOctets(ipStr, p) ==
    LET o1 == OctetAt(ipStr, 0)
        o2 == OctetAt(ipStr, o1.pos)
        o3 == OctetAt(ipStr, o2.pos)
    IN [a |-> o1.value, b |-> o2.value, c |-> o3.value,
        d |-> stoi(Substr(ipStr, o3.pos, Len(ipStr))), p |-> p]

\* p of splitIp for the text after the colon.
PortOf(portStr) ==
    IF portStr = <<>> THEN 0 ELSE stoi(portStr)

\* 2.3 splitIp: the four octets and the port of "IP:PORT".
splitIp(ipPort) ==
    LET colon == Find(ipPort, Ascii[":"], 1)
    IN IF colon = 0
       THEN SplitOctets(ipPort, 0)
       ELSE SplitOctets(Substr(ipPort, 0, colon - 1),
                        PortOf(Substr(ipPort, colon, Len(ipPort))))

\* Mutant: 30 days to a month.
total_time_30Days(month, day, hour, minute, second) ==
    ((((month * 30 + day) * 24 + hour) * 60 + minute) * 60 + second)

\* 2.4 total_time: the date and time as one number, 31 days to a month.
total_time(month, day, hour, minute, second) ==
    ((((month * 31 + day) * 24 + hour) * 60 + minute) * 60 + second)

\* Mutant: the message is not compared, the time decides last.
lessEntry_NoReason(a, b) ==
    IF a.ip1 # b.ip1 THEN a.ip1 < b.ip1
    ELSE IF a.ip2 # b.ip2 THEN a.ip2 < b.ip2
    ELSE IF a.ip3 # b.ip3 THEN a.ip3 < b.ip3
    ELSE IF a.ip4 # b.ip4 THEN a.ip4 < b.ip4
    ELSE a.totalTime < b.totalTime

\* 2.5 lessEntry: a goes before b by IP octets, then time, then message.
lessEntry(a, b) ==
    IF a.ip1 # b.ip1 THEN a.ip1 < b.ip1
    ELSE IF a.ip2 # b.ip2 THEN a.ip2 < b.ip2
    ELSE IF a.ip3 # b.ip3 THEN a.ip3 < b.ip3
    ELSE IF a.ip4 # b.ip4 THEN a.ip4 < b.ip4
    ELSE IF a.totalTime # b.totalTime THEN a.totalTime < b.totalTime
    ELSE StrLess(a.reason, b.reason)

\* The entry E main fills from one line of the file (3.1).
ParseLine23(line) ==
    LET t1 == tokenizer(line, 0)
        t2 == tokenizer(line, t1.pos)
        t3 == tokenizer(line, t2.pos)
        t4 == tokenizer(line, t3.pos)
        month == months_int(t1.token)
        day == stoi(t2.token)
        hour == stoi(Substr(t3.token, 0, 2))
        min == stoi(Substr(t3.token, 3, 2))
        sec == stoi(Substr(t3.token, 6, 2))
        ip == splitIp(t4.token)
    IN [month |-> month, day |-> day, hour |-> hour, min |-> min, sec |-> sec,
        totalTime |-> total_time(month, day, hour, min, sec),
        ip1 |-> ip.a, ip2 |-> ip.b, ip3 |-> ip.c, ip4 |-> ip.d, port |-> ip.p,
        reason |-> Substr(line, t4.pos, Len(line)), originLine |-> line]

\* The last node reached from n by next pointers (n is not nullptr).
RECURSIVE LastFrom(_, _)
LastFrom(heap, n) ==
    IF heap[n].next = 0 THEN n ELSE LastFrom(heap, heap[n].next)

\* The while loop of mergeSortedLists: the heap and the four pointers as the
\* loop leaves them.
RECURSIVE MergeLoop(_, _, _, _, _)
MergeLoop(heap, first, second, newHead, newTail) ==
    IF first # 0 /\ second # 0
    THEN IF lessEntry(heap[first].data, heap[second].data)
         THEN MergeLoop(IF newHead = 0 THEN heap
                        ELSE [heap EXCEPT ![newTail].next = first,
                                          ![first].prev = newTail],
                        heap[first].next, second,
                        IF newHead = 0 THEN first ELSE newHead, first)
         ELSE MergeLoop(IF newHead = 0 THEN heap
                        ELSE [heap EXCEPT ![newTail].next = second,
                                          ![second].prev = newTail],
                        first, heap[second].next,
                        IF newHead = 0 THEN second ELSE newHead, second)
    ELSE [heap |-> heap, first |-> first, second |-> second,
          newHead |-> newHead, newTail |-> newTail]

\* Mutant: the nodes left in one list when the other runs out are not linked.
mergeSortedLists_DropRest(heap, first, second) ==
    IF first = 0 THEN [heap |-> heap, head |-> second]
    ELSE IF second = 0 THEN [heap |-> heap, head |-> first]
    ELSE LET m == MergeLoop(heap, first, second, 0, 0)
         IN [heap |-> [m.heap EXCEPT ![m.newHead].prev = 0, ![m.newTail].next = 0],
             head |-> m.newHead]

\* Mutant: the nodes left in one list are linked forwards only, the prev of
\* their first node is not set.
mergeSortedLists_NoPrevOnRest(heap, first, second) ==
    IF first = 0 THEN [heap |-> heap, head |-> second]
    ELSE IF second = 0 THEN [heap |-> heap, head |-> first]
    ELSE LET m == MergeLoop(heap, first, second, 0, 0)
             rest == IF m.first # 0 THEN m.first ELSE m.second
             linked == [m.heap EXCEPT ![m.newTail].next = rest]
         IN [heap |-> [linked EXCEPT ![m.newHead].prev = 0,
                                     ![LastFrom(linked, rest)].next = 0],
             head |-> m.newHead]

\* 2.6 mergeSortedLists(first, second): the heap after the call and the
\* head it returns.
mergeSortedLists(heap, first, second) ==
    IF first = 0 THEN [heap |-> heap, head |-> second]
    ELSE IF second = 0 THEN [heap |-> heap, head |-> first]
    ELSE LET m == MergeLoop(heap, first, second, 0, 0)
             withFirst == IF m.first # 0
                          THEN [heap |-> [m.heap EXCEPT ![m.newTail].next = m.first,
                                                        ![m.first].prev = m.newTail],
                                newTail |-> LastFrom(m.heap, m.first)]
                          ELSE [heap |-> m.heap, newTail |-> m.newTail]
             withSecond == IF m.second # 0
                           THEN [heap |-> [withFirst.heap EXCEPT
                                              ![withFirst.newTail].next = m.second,
                                              ![m.second].prev = withFirst.newTail],
                                 newTail |-> LastFrom(withFirst.heap, m.second)]
                           ELSE withFirst
             headed == IF m.newHead # 0
                       THEN [withSecond.heap EXCEPT ![m.newHead].prev = 0]
                       ELSE withSecond.heap
         IN [heap |-> IF withSecond.newTail # 0
                      THEN [headed EXCEPT ![withSecond.newTail].next = 0]
                      ELSE headed,
             head |-> m.newHead]

\* Mutant: slow never moves, the first half is the first node alone.
Middle_FirstNode(heap, slow, fast) ==
    slow

\* The slow/fast loop of mergeSortList: the node slow stops at.
RECURSIVE Middle(_, _, _)
Middle(heap, slow, fast) ==
    IF fast # 0 /\ heap[fast].next # 0
    THEN LET fast2 == heap[heap[fast].next].next
         IN Middle(heap, IF fast2 # 0 THEN heap[slow].next ELSE slow, fast2)
    ELSE slow

\* 2.7 mergeSortList(start): the heap after the call and the head it returns.
RECURSIVE mergeSortList(_, _)
mergeSortList(heap, start) ==
    IF start = 0 THEN [heap |-> heap, head |-> start]
    ELSE IF heap[start].next = 0 THEN [heap |-> heap, head |-> start]
    ELSE LET slow == Middle(heap, start, start)
             secondHalf == heap[slow].next
             cut == IF secondHalf # 0
                    THEN [heap EXCEPT ![slow].next = 0, ![secondHalf].prev = 0]
                    ELSE [heap EXCEPT ![slow].next = 0]
             leftSorted == mergeSortList(cut, start)
             rightSorted == mergeSortList(leftSorted.heap, secondHalf)
         IN mergeSortedLists(rightSorted.heap, leftSorted.head, rightSorted.head)

\* The bitwise or of two numbers that are not negative.
RECURSIVE BitOr(_, _)
BitOr(x, y) ==
    IF x = 0 THEN y
    ELSE IF y = 0 THEN x
    ELSE (IF x % 2 = 1 \/ y % 2 = 1 THEN 1 ELSE 0) + 2 * BitOr(x \div 2, y \div 2)

\* Mutant: the third octet is not shifted, it shares the low bits with the
\* fourth.
IpVal_ThirdUnshifted(ip1, ip2, ip3, ip4) ==
    [hi |-> BitOr(BitOr(ip1 * 256, ip2), BitOr(ip3 \div W16, ip4 \div W16)),
     lo |-> BitOr(ip3 % W16, ip4 % W16)]

\* (ip1 << 24) | (ip2 << 16) | (ip3 << 8) | ip4 as an unsigned long long,
\* held as [hi, lo]: the bits from 16 up and the low 16 bits.
IpVal(ip1, ip2, ip3, ip4) ==
    [hi |-> BitOr(BitOr(ip1 * 256, ip2), BitOr(ip3 \div 256, ip4 \div W16)),
     lo |-> BitOr((ip3 % 256) * 256, ip4 % W16)]

\* x < y for two such values.
ValLess(x, y) ==
    \/ x.hi < y.hi
    \/ x.hi = y.hi /\ x.lo < y.lo

\* Mutant: the scan stops at the first node above key, a node equal to the
\* low end of the range is passed.
RECURSIVE lowerBoundIP_Strict(_, _, _)
lowerBoundIP_Strict(heap, start, key) ==
    IF start = 0 THEN 0
    ELSE LET d == heap[start].data
         IN IF ValLess(key, IpVal(d.ip1, d.ip2, d.ip3, d.ip4)) THEN start
            ELSE lowerBoundIP_Strict(heap, heap[start].next, key)

\* 2.9 lowerBoundIP(start, key): the first node from start with ipVal >= key.
RECURSIVE lowerBoundIP(_, _, _)
lowerBoundIP(heap, start, key) ==
    IF start = 0 THEN 0
    ELSE LET d == heap[start].data
         IN IF ~ValLess(IpVal(d.ip1, d.ip2, d.ip3, d.ip4), key) THEN start
            ELSE lowerBoundIP(heap, heap[start].next, key)

\* 2.10 upperBoundIP(start, key): the first node from start with ipVal > key.
RECURSIVE upperBoundIP(_, _, _)
upperBoundIP(heap, start, key) ==
    IF start = 0 THEN 0
    ELSE LET d == heap[start].data
         IN IF ValLess(key, IpVal(d.ip1, d.ip2, d.ip3, d.ip4)) THEN start
            ELSE upperBoundIP(heap, heap[start].next, key)

\* 3.6 the printing loop: the lines from cur backwards, up to startNode or
\* to the front of the list.
RECURSIVE PrintBack(_, _, _)
PrintBack(heap, cur, startNode) ==
    IF cur = 0 THEN <<>>
    ELSE IF cur = startNode THEN <<heap[cur].data.originLine>>
    ELSE <<heap[cur].data.originLine>> \o PrintBack(heap, heap[cur].prev, startNode)

\* 3.6 of main for the nodes 3.5 found: nothing if one of them is nullptr,
\* else the lines from endNode back.
PrintRange23(heap, startNode, endNode) ==
    IF startNode = 0 \/ endNode = 0 THEN <<>>
    ELSE PrintBack(heap, endNode, startNode)

\* endNode of 3.5 for the node endBound that upperBoundIP returned.
EndNode23(heap, tail, endBound) ==
    IF endBound = 0 THEN tail ELSE heap[endBound].prev

\* 3.5 from the startNode that lowerBoundIP returned, and 3.6.
RangeFrom23(heap, head, tail, startNode, endKey) ==
    PrintRange23(heap, startNode,
                 EndNode23(heap, tail,
                           upperBoundIP(heap, IF startNode # 0 THEN startNode ELSE head,
                                        endKey)))

\* 3.5 and 3.6 of main: the lines printed for the keys startKey and endKey.
RangeBetween23(heap, head, tail, startKey, endKey) ==
    RangeFrom23(heap, head, tail, lowerBoundIP(heap, head, startKey), endKey)

\* 3.4 the exchange of the two keys when the first is the greater, then 3.5
\* and 3.6.
RangeOrdered23(heap, head, tail, key1, key2) ==
    IF ValLess(key2, key1)
    THEN RangeBetween23(heap, head, tail, key2, key1)
    ELSE RangeBetween23(heap, head, tail, key1, key2)

\* 3.4 the key of the octets splitIp found.
KeyOf23(ip) ==
    IpVal(ip.a, ip.b, ip.c, ip.d)

\* Mutant: the two keys are used in the order they were typed.
RangeReport23_NoSwap(heap, head, tail, startIP, endIP) ==
    RangeBetween23(heap, head, tail, KeyOf23(splitIp(startIP)), KeyOf23(splitIp(endIP)))

\* 3.4 to 3.6 of main: the lines printed for the typed addresses startIP and
\* endIP on the sorted list head..tail.
RangeReport23(heap, head, tail, startIP, endIP) ==
    RangeOrdered23(heap, head, tail, KeyOf23(splitIp(startIP)), KeyOf23(splitIp(endIP)))

\* The lines from node n on, following next: what 3.3 writes to the file.
RECURSIVE LinesFrom(_, _)
LinesFrom(heap, n) ==
    IF n = 0 THEN <<>>
    ELSE <<heap[n].data.originLine>> \o LinesFrom(heap, heap[n].next)

(***************************** Act2.3: main ********************************)
\* A line of the file: month, day, time, "IP:PORT" and the message.
Text23(month, day, time, ipPort, reason) ==
    month \o <<Ascii[" "]>> \o day \o <<Ascii[" "]>> \o time \o <<Ascii[" "]>>
    \o ipPort \o <<Ascii[" "]>> \o reason

\* The lines the file may hold: one address twice with ports 80 and 81 and
\* nothing else different, the same address a second earlier and with a
\* smaller message, the numerically larger 10.1.1.1 and the smaller 1.1.1.2.
Lines23 ==
    { Text23(S(<<"J", "u", "l">>), S(<<"1", "8">>), S(<<"0", "7", ":", "5", "3", ":", "2", "2">>),
             S(<<"9", ".", "1", ".", "1", ".", "1", ":", "8", "0">>), S(<<"o", "k">>)),
      Text23(S(<<"J", "u", "l">>), S(<<"1", "8">>), S(<<"0", "7", ":", "5", "3", ":", "2", "2">>),
             S(<<"9", ".", "1", ".", "1", ".", "1", ":", "8", "1">>), S(<<"o", "k">>)),
      Text23(S(<<"J", "u", "l">>), S(<<"1", "8">>), S(<<"0", "7", ":", "5", "3", ":", "2", "1">>),
             S(<<"9", ".", "1", ".", "1", ".", "1", ":", "8", "0">>), S(<<"o", "k", " ", "o", "k">>)),
      Text23(S(<<"J", "u", "l">>), S(<<"1", "8">>), S(<<"0", "7", ":", "5", "3", ":", "2", "2">>),
             S(<<"9", ".", "1", ".", "1", ".", "1", ":", "8", "0">>), S(<<"n", "o">>)),
      Text23(S(<<"J", "u", "n">>), S(<<"1", "9">>), S(<<"0", "7", ":", "5", "3", ":", "2", "2">>),
             S(<<"1", "0", ".", "1", ".", "1", ".", "1", ":", "8", "0">>), S(<<"o", "k">>)),
      Text23(S(<<"A", "u", "g">>), S(<<"2">>), S(<<"1", "0", ":", "0", "0", ":", "0", "0">>),
             S(<<"1", ".", "1", ".", "1", ".", "2">>), <<>>) }

\* The addresses that may be typed for the range: two stored ones and
\* 2.0.0.0, which lies between them.
RangeIPs23 ==
    { S(<<"1", ".", "1", ".", "1", ".", "2">>),
      S(<<"2", ".", "0", ".", "0", ".", "0">>),
      S(<<"9", ".", "1", ".", "1", ".", "1">>) }

\* The file is open, the list is empty.
Init23 ==
    /\ nodes23 = <<>>
    /\ head23 = 0
    /\ tail23 = 0
    /\ pc23 = "read"
    /\ file23 = <<>>
    /\ range23 = <<>>
    /\ out23 = <<>>

\* 3.1 one pass of the reading loop: the entry of the line in a new node at
\* the end of the list.
ReadLine23(line) ==
    /\ pc23 = "read"
    /\ Len(nodes23) < MaxLines23
    /\ LET newNode == Len(nodes23) + 1
           E == ParseLine23(line)
       IN IF head23 = 0
          THEN /\ nodes23' = Append(nodes23, [data |-> E, prev |-> 0, next |-> 0])
               /\ head23' = newNode
               /\ tail23' = newNode
          ELSE /\ nodes23' = Append([nodes23 EXCEPT ![tail23].next = newNode],
                                    [data |-> E, prev |-> tail23, next |-> 0])
               /\ head23' = head23
               /\ tail23' = newNode
    /\ UNCHANGED <<pc23, file23, range23, out23>>
    /\ UNCHANGED <<vars52, vars43, varsFn, vars34>>

\* End of file: 3.2 sorts the list and moves tail to its last node, 3.3
\* writes the sorted lines to SortedData.txt.
Sort23 ==
    /\ pc23 = "read"
    /\ LET r == mergeSortList(nodes23, head23)
       IN /\ nodes23' = r.heap
          /\ head23' = r.head
          /\ tail23' = IF r.head = 0 THEN 0 ELSE LastFrom(r.heap, r.head)
          /\ file23' = LinesFrom(r.heap, r.head)
    /\ pc23' = "sorted"
    /\ UNCHANGED <<range23, out23>>
    /\ UNCHANGED <<vars52, vars43, varsFn, vars34>>

\* 3.4 to 3.6: the two addresses are read, the records between them are
\* printed from the last to the first, and main returns 0.
ReadRange23(startIP, endIP) ==
    /\ pc23 = "sorted"
    /\ range23' = <<startIP, endIP>>
    /\ out23' = RangeReport23(nodes23, head23, tail23, startIP, endIP)
    /\ pc23' = "done"
    /\ UNCHANGED <<nodes23, head23, tail23, file23>>
    /\ UNCHANGED <<vars52, vars43, varsFn, vars34>>

\* 3.4 with nothing to read on standard input: main returns 0.
NoRange23 ==
    /\ pc23 = "sorted"
    /\ pc23' = "done"
    /\ UNCHANGED <<nodes23, head23, tail23, file23, range23, out23>>
    /\ UNCHANGED <<vars52, vars43, varsFn, vars34>>

(***************************** Act3_4: helpers *****************************)
\* IPKey::operator<: octet by octet, numerically.
IPKeyLess(k, other) ==
    IF k.ip1 # other.ip1 THEN k.ip1 < other.ip1
    ELSE IF k.ip2 # other.ip2 THEN k.ip2 < other.ip2
    ELSE IF k.ip3 # other.ip3 THEN k.ip3 < other.ip3
    ELSE k.ip4 < other.ip4

\* 4.5 lessEntry of Act3_4: by time, then by message.
lessEntry34(a, b) ==
    IF a.totalTime # b.totalTime THEN a.totalTime < b.totalTime
    ELSE StrLess(a.reason, b.reason)

\* The entry E main fills from one line (5.1); months_int, tokenizer, splitIp
\* and total_time have the same text in Act3_4 as in Act2.3.
ParseLine34(line) ==
    ParseLine23(line)

\* ipMap[key].push_back(E): the map is the sequence of its pairs in the
\* order of IPKey::operator<; two keys are one when neither is less.
RECURSIVE MapPushBack(_, _, _)
MapPushBack(m, key, E) ==
    IF m = <<>> THEN <<[key |-> key, entries |-> <<E>>]>>
    ELSE IF ~IPKeyLess(key, Head(m).key) /\ ~IPKeyLess(Head(m).key, key)
    THEN <<[Head(m) EXCEPT !.entries = Append(@, E)]>> \o Tail(m)
    ELSE IF IPKeyLess(key, Head(m).key)
    THEN <<[key |-> key, entries |-> <<E>>]>> \o m
    ELSE <<Head(m)>> \o MapPushBack(Tail(m), key, E)

\* The sequence s without its element at position i.
RemoveAt(s, i) ==
    SubSeq(s, 1, i - 1) \o SubSeq(s, i + 1, Len(s))

\* std::sort(entries, lessEntry34): every arrangement of the entries in
\* which no entry is less than an earlier one. The order of entries that
\* are equal under lessEntry34 is not specified, so each is an outcome.
RECURSIVE SortedOrders34(_)
SortedOrders34(entries) ==
    IF entries = <<>> THEN {<<>>}
    ELSE UNION { { <<entries[i]>> \o rest : rest \in SortedOrders34(RemoveAt(entries, i)) } :
                 i \in { i \in 1..Len(entries) :
                           /\ \A j \in 1..Len(entries) : ~lessEntry34(entries[j], entries[i])
                           /\ \A j \in 1..(i - 1) : entries[j] # entries[i] } }

\* Mutant: equal counts are ordered by the smaller address first.
MoreAccesses_TieAscending(a, b) ==
    IF a.count # b.count THEN a.count > b.count
    ELSE IPKeyLess(a.key, b.key)

\* 5.3 the comparator of the second sort: more accesses first, then the
\* numerically larger address first.
MoreAccesses(a, b) ==
    IF a.count # b.count THEN a.count > b.count
    ELSE IF a.key.ip1 # b.key.ip1 THEN a.key.ip1 > b.key.ip1
    ELSE IF a.key.ip2 # b.key.ip2 THEN a.key.ip2 > b.key.ip2
    ELSE IF a.key.ip3 # b.key.ip3 THEN a.key.ip3 > b.key.ip3
    ELSE a.key.ip4 > b.key.ip4

\* std::sort(ipDataList, MoreAccesses): the keys of the list are distinct, so
\* the comparator never ties and the sorted list is the only one in which
\* each element goes before the next; it is built by insertion.
RECURSIVE InsertData34(_, _)
InsertData34(sorted, d) ==
    IF sorted = <<>> THEN <<d>>
    ELSE IF MoreAccesses(d, Head(sorted)) THEN <<d>> \o sorted
    ELSE <<Head(sorted)>> \o InsertData34(Tail(sorted), d)

RECURSIVE SortDataList34(_, _)
SortDataList34(sorted, rest) ==
    IF rest = <<>> THEN sorted
    ELSE SortDataList34(InsertData34(sorted, Head(rest)), Tail(rest))

\* 5.2 and 5.3: the list of [key, count] in the order of the report.
ipDataList34(ipMap) ==
    SortDataList34(<<>>, [i \in 1..Len(ipMap) |->
                             [key |-> ipMap[i].key, count |-> Len(ipMap[i].entries)]])

\* The entries the map holds under key.
EntriesOf34(ipMap, key) ==
    ipMap[CHOOSE i \in 1..Len(ipMap) : ipMap[i].key = key].entries

\* The lines of a sequence of entries.
OriginLines(entries) ==
    [i \in 1..Len(entries) |-> entries[i].originLine]

\* 5.4 the printing loop from index i (0-based) on: every text it can print,
\* one for each outcome of the sorts of 5.2.
RECURSIVE Reports34(_, _, _)
Reports34(ipMap, list, i) ==
    IF i >= (IF 5 < Len(list) THEN 5 ELSE Len(list)) THEN {<<>>}
    ELSE { OriginLines(group) \o rest :
               group \in SortedOrders34(EntriesOf34(ipMap, list[i + 1].key)),
               rest \in Reports34(ipMap, list, i + 1) }

(***************************** Act3_4: main ********************************)
\* The lines the file may hold: six addresses, one of them (9.1.1.1) also
\* with another port at the same time and with the same message.
Lines34 ==
    { Text23(S(<<"J", "u", "l">>), S(<<"1", "8">>), S(<<"0", "7", ":", "5", "3", ":", "2", "2">>),
             f, S(<<"o", "k">>)) :
        f \in { S(<<"9", ".", "1", ".", "1", ".", "1", ":", "8", "0">>),
                S(<<"9", ".", "1", ".", "1", ".", "1", ":", "8", "1">>),
                S(<<"1", "0", ".", "1", ".", "1", ".", "1", ":", "8", "0">>),
                S(<<"1", "0", ".", "1", "0", ".", "0", ".", "1">>),
                S(<<"1", "0", ".", "2", ".", "0", ".", "1">>),
                S(<<"2", ".", "0", ".", "0", ".", "1">>),
                S(<<"1", ".", "1", ".", "1", ".", "2">>) } }

\* The file is open, the map is empty.
Init34 ==
    /\ ipMap34 = <<>>
    /\ pc34 = "read"
    /\ nread34 = 0
    /\ out34 = <<>>
    /\ seen34 = [l \in Lines34 |-> 0]

\* 5.1 one pass of the reading loop.
ReadLine34(line) ==
    /\ pc34 = "read"
    /\ nread34 < MaxLines34
    /\ nread34' = nread34 + 1
    /\ LET E == ParseLine34(line)
       IN ipMap34' = MapPushBack(ipMap34,
                         [ip1 |-> E.ip1, ip2 |-> E.ip2, ip3 |-> E.ip3, ip4 |-> E.ip4], E)
    /\ seen34' = [seen34 EXCEPT ![line] = @ + 1]
    /\ UNCHANGED <<pc34, out34>>
    /\ UNCHANGED <<vars52, vars43, varsFn, vars23>>

\* End of file: 5.2 to 5.4 print the report and main returns 0.
Report34 ==
    /\ pc34 = "read"
    /\ \E text \in Reports34(ipMap34, ipDataList34(ipMap34), 0) : out34' = text
    /\ pc34' = "done"
    /\ UNCHANGED <<ipMap34, nread34, seen34>>
    /\ UNCHANGED <<vars52, vars43, varsFn, vars23>>

(***************************** pure functions ******************************)
\* Four-octet addresses; 9 against 10 and 2 against 10 separate the numeric
\* order from the order of the texts, in every octet.
Quads ==
    { <<a, b, c, d>> : a \in {9, 10}, b \in {2, 10}, c \in {9, 10}, d \in {9, 10} }

\* The dotted-quad text of an address, as it stands in the file.
FormatIP(q) ==
    IntToStr(q[1]) \o <<Ascii["."]>> \o IntToStr(q[2]) \o <<Ascii["."]>>
    \o IntToStr(q[3]) \o <<Ascii["."]>> \o IntToStr(q[4])

\* The list of the texts of a list of addresses.
FormatAll(qs) ==
    [k \in 1..Len(qs) |-> FormatIP(qs[k])]

InitCompare ==
    /\ fnName = "compareIPs"
    /\ fnPc = "call"
    /\ fnArgs \in [1..2 -> Quads]
    /\ cmpRes = FALSE
    /\ sortRes = <<>>
    /\ fnRes = <<>>

InitSort ==
    /\ fnName = "sortIPList"
    /\ fnPc = "call"
    /\ fnArgs \in UNION { [1..n -> Quads] : n \in 0..MaxList }
    /\ cmpRes = FALSE
    /\ sortRes = <<>>
    /\ fnRes = <<>>

ApplyCompareIPs ==
    /\ fnName = "compareIPs"
    /\ fnPc = "call"
    /\ cmpRes' = compareIPs(FormatIP(fnArgs[1]), FormatIP(fnArgs[2]))
    /\ fnPc' = "done"
    /\ UNCHANGED <<fnName, fnArgs, sortRes, fnRes>>
    /\ UNCHANGED <<vars52, vars43, vars23, vars34>>

ApplySortIPList ==
    /\ fnName = "sortIPList"
    /\ fnPc = "call"
    /\ sortRes' = sortIPList(FormatAll(fnArgs))
    /\ fnPc' = "done"
    /\ UNCHANGED <<fnName, fnArgs, cmpRes, fnRes>>
    /\ UNCHANGED <<vars52, vars43, vars23, vars34>>

\* The addresses extractNetwork may be given: four octets, three, two, one,
\* a text that ends in its only dot, and the empty text.
IpTexts52 ==
    { S(<<"1", ".", "1", ".", "0", ".", "1", "0">>),
      S(<<"1", "0", ".", "1", ".", "9">>),
      S(<<"7", ".", "7">>),
      S(<<"7", ".">>),
      S(<<"7">>),
      <<>> }

\* Dates and times <<month, day, hour, minute, second>> at the ends of the
\* ranges of their parts.
Stamps ==
    { <<month, day, hour, minute, second>> :
          month \in {1, 2, 12}, day \in {1, 31}, hour \in {0, 23},
          minute \in {0, 59}, second \in {0, 59} }

\* Addresses with every octet at an end of 0..255 or next to it.
Quads255 ==
    { <<a, b, c, d>> : a \in {0, 1, 255}, b \in {0, 1, 255},
                       c \in {0, 1, 255}, d \in {0, 1, 255} }

\* An entry with the octets of q, all else equal from entry to entry.
EntryOfQuad(q) ==
    [month |-> 7, day |-> 18, hour |-> 7, min |-> 53, sec |-> 22,
     totalTime |-> total_time(7, 18, 7, 53, 22),
     ip1 |-> q[1], ip2 |-> q[2], ip3 |-> q[3], ip4 |-> q[4], port |-> 80,
     reason |-> S(<<"o", "k">>), originLine |-> <<>>]

InitExtract ==
    /\ fnName = "extractNetwork"
    /\ fnPc = "call"
    /\ fnArgs \in [1..1 -> IpTexts52]
    /\ cmpRes = FALSE
    /\ sortRes = <<>>
    /\ fnRes = <<>>

InitTotalTime ==
    /\ fnName = "total_time"
    /\ fnPc = "call"
    /\ fnArgs \in [1..2 -> Stamps]
    /\ cmpRes = FALSE
    /\ sortRes = <<>>
    /\ fnRes = <<>>

InitKeys ==
    /\ fnName = "ipVal"
    /\ fnPc = "call"
    /\ fnArgs \in [1..2 -> Quads255]
    /\ cmpRes = FALSE
    /\ sortRes = <<>>
    /\ fnRes = <<>>

\* extractNetwork(ip) is called.
ApplyExtractNetwork ==
    /\ fnName = "extractNetwork"
    /\ fnPc = "call"
    /\ fnRes' = extractNetwork(fnArgs[1])
    /\ fnPc' = "done"
    /\ UNCHANGED <<fnName, fnArgs, cmpRes, sortRes>>
    /\ UNCHANGED <<vars52, vars43, vars23, vars34>>

\* total_time is called for each of the two dates.
ApplyTotalTime ==
    /\ fnName = "total_time"
    /\ fnPc = "call"
    /\ fnRes' = [k \in 1..2 |->
                    total_time(fnArgs[k][1], fnArgs[k][2], fnArgs[k][3],
                               fnArgs[k][4], fnArgs[k][5])]
    /\ fnPc' = "done"
    /\ UNCHANGED <<fnName, fnArgs, cmpRes, sortRes>>
    /\ UNCHANGED <<vars52, vars43, vars23, vars34>>

\* The two addresses are compared as lowerBoundIP and upperBoundIP compare
\* them (ipVal against ipVal) and as lessEntry compares two entries that
\* differ in nothing else.
ApplyKeys ==
    /\ fnName = "ipVal"
    /\ fnPc = "call"
    /\ fnRes' = [keyLess |-> ValLess(IpVal(fnArgs[1][1], fnArgs[1][2], fnArgs[1][3],
                                            fnArgs[1][4]),
                                      IpVal(fnArgs[2][1], fnArgs[2][2], fnArgs[2][3],
                                            fnArgs[2][4])),
                 less |-> lessEntry(EntryOfQuad(fnArgs[1]), EntryOfQuad(fnArgs[2]))]
    /\ fnPc' = "done"
    /\ UNCHANGED <<fnName, fnArgs, cmpRes, sortRes>>
    /\ UNCHANGED <<vars52, vars43, vars23, vars34>>

(***************************** specifications ******************************)
\* A program that is not the one running.
Off52 ==
    /\ hashTable = [i \in 0..(TABLE_SIZE - 1) |-> EmptySlot]
    /\ itemCount = 0
    /\ pc52 = "off"
    /\ nread52 = 0
    /\ n52 = 0
    /\ i52 = 0
    /\ out52 = <<>>
    /\ calls52 = <<>>
    /\ asked52 = <<>>

Off43 ==
    /\ hostTable = [i \in 0..(TABLE_SIZE_43 - 1) |-> EmptyHost]
    /\ networkTable = [i \in 0..(TABLE_SIZE_43 - 1) |-> EmptyNetwork]
    /\ pc43 = "off"
    /\ nread43 = 0
    /\ out43 = <<>>
    /\ seen43 = <<>>
    /\ read43 = <<>>

OffFn ==
    /\ fnName = "none"
    /\ fnPc = "off"
    /\ fnArgs = <<>>
    /\ cmpRes = FALSE
    /\ sortRes = <<>>
    /\ fnRes = <<>>

Off23 ==
    /\ nodes23 = <<>>
    /\ head23 = 0
    /\ tail23 = 0
    /\ pc23 = "off"
    /\ file23 = <<>>
    /\ range23 = <<>>
    /\ out23 = <<>>

Off34 ==
    /\ ipMap34 = <<>>
    /\ pc34 = "off"
    /\ nread34 = 0
    /\ out34 = <<>>
    /\ seen34 = [l \in Lines34 |-> 0]

Next52 ==
    \/ \E ipPort \in IpPorts52 : ReadLine52(ipPort)
    \/ \E n \in (-1)..MaxQueries : ReadCount52(n)
    \/ \E q \in Queries52 : Query52(q)
    \/ Finish52

Next43 ==
    \/ \E line \in Lines43 : ReadLine43(line)
    \/ Finish43

Next43Grow ==
    \/ \E line \in LinesGrow43 : ReadLineGrow43(line)
    \/ Finish43

NextFn ==
    \/ ApplyCompareIPs
    \/ ApplySortIPList

NextCalc ==
    \/ ApplyExtractNetwork
    \/ ApplyTotalTime
    \/ ApplyKeys

Next23 ==
    \/ \E line \in Lines23 : ReadLine23(line)
    \/ Sort23
    \/ \E startIP, endIP \in RangeIPs23 : ReadRange23(startIP, endIP)
    \/ NoRange23

Next34 ==
    \/ \E line \in Lines34 : ReadLine34(line)
    \/ Report34

\* The start of one run of Act5.2, of Act4.3, of either, and of one call
\* of compareIPs or sortIPList on a bounded input.
Start52 ==
    Init52 /\ Off43 /\ OffFn /\ Off23 /\ Off34

Start43 ==
    Off52 /\ Init43 /\ OffFn /\ Off23 /\ Off34

Init ==
    Start52 \/ Start43

StartFn ==
    Off52 /\ Off43 /\ (InitCompare \/ InitSort) /\ Off23 /\ Off34

\* The start of one call of extractNetwork, of total_time or of the key
\* comparison on a bounded input.
StartCalc ==
    Off52 /\ Off43 /\ (InitExtract \/ InitTotalTime \/ InitKeys) /\ Off23 /\ Off34

\* The start of one run of Act2.3 and of Act3_4.
Start23 ==
    Off52 /\ Off43 /\ OffFn /\ Init23 /\ Off34

Start34 ==
    Off52 /\ Off43 /\ OffFn /\ Off23 /\ Init34

Next ==
    \/ Next52
    \/ Next43

\* One run of Act5.2.
Spec52 ==
    Start52 /\ [][Next52]_vars

\* One run of Act4.3.
Spec43 ==
    Start43 /\ [][Next43]_vars

\* One run of Act4.3 on the longer file of one host.
Spec43Grow ==
    Start43 /\ [][Next43Grow]_vars

\* One run of either program.
Spec ==
    Init /\ [][Next]_vars

\* compareIPs or sortIPList applied to one bounded input.
SpecFn ==
    StartFn /\ [][NextFn]_vars

\* extractNetwork, total_time or the key comparison applied to one bounded
\* input.
SpecCalc ==
    StartCalc /\ [][NextCalc]_vars

\* One run of Act2.3.
Spec23 ==
    Start23 /\ [][Next23]_vars

\* One run of Act3_4.
Spec34 ==
    Start34 /\ [][Next34]_vars

(***************************** properties **********************************)
Range(s) ==
    { s[k] : k \in 1..Len(s) }

\* No element occurs twice in s.
NoRepeat(s) ==
    \A j, k \in 1..Len(s) : j # k => s[j] # s[k]

\* a and b hold the same elements the same number of times.
IsPermutation(a, b) ==
    /\ Len(a) = Len(b)
    /\ \A x \in Range(a) \cup Range(b) :
           Cardinality({k \in 1..Len(a) : a[k] = x})
               = Cardinality({k \in 1..Len(b) : b[k] = x})

Slots52 ==
    0..(TABLE_SIZE - 1)

Slots43 ==
    0..(TABLE_SIZE_43 - 1)

\* The calls of insertOrUpdate that returned true.
OkCalls ==
    { j \in 1..Len(calls52) : calls52[j].ok }

\* The network keys of the successful calls.
InsertedKeys52 ==
    { calls52[j].network : j \in OkCalls }

\* C1 (hash index totality, Act5.2): after successful insertOrUpdate calls
\* that use fewer distinct network keys than TABLE_SIZE, searchNetwork(k)
\* returns, for every inserted key k, the index of an occupied slot whose
\* network is k: never -1, never the slot of another key.
C1_SearchFindsEveryInsertedKey ==
    Cardinality(InsertedKeys52) < TABLE_SIZE =>
        \A k \in InsertedKeys52 :
            LET i == searchNetwork(hashTable, k)
            IN /\ i \in Slots52
               /\ hashTable[i].occupied
               /\ hashTable[i].network = k

\* Two colliding keys are stored and one of them is found away from its
\* home slot, behind the slot of the other.
C1_Witness ==
    /\ Cardinality(InsertedKeys52) < TABLE_SIZE
    /\ \E k1, k2 \in InsertedKeys52 :
           /\ k1 # k2
           /\ hashFunction(k1) = hashFunction(k2)
           /\ searchNetwork(hashTable, k2) \in Slots52
           /\ searchNetwork(hashTable, k2) # hashFunction(k2)

\* C2 (no duplicate keys): in every reachable state of hashTable (Act5.2),
\* hostTable and networkTable (Act4.3), no two occupied slots hold the
\* same key.
C2_NoDuplicateKeys ==
    /\ \A i, j \in Slots52 :
           (i # j /\ hashTable[i].occupied /\ hashTable[j].occupied)
               => hashTable[i].network # hashTable[j].network
    /\ \A i, j \in Slots43 :
           (i # j /\ hostTable[i].used /\ hostTable[j].used)
               => hostTable[i].ip # hostTable[j].ip
    /\ \A i, j \in Slots43 :
           (i # j /\ networkTable[i].used /\ networkTable[j].used)
               => networkTable[i].prefix # networkTable[j].prefix

\* Act4.3 has read the same host twice and the same network under two
\* hosts, while both tables hold colliding keys away from their home slots.
C2_Witness ==
    /\ Len(seen43) > Cardinality(Range(seen43))
    /\ \E i \in Slots43 : networkTable[i].used /\ networkTable[i].uniqueHostCount >= 2
    /\ \E i \in Slots43 :
           networkTable[i].used
           /\ Mod32(hashString(networkTable[i].prefix), TABLE_SIZE_43) # i
    /\ \E i \in Slots43 :
           hostTable[i].used /\ Mod32(hashString(hostTable[i].ip), TABLE_SIZE_43) # i

\* The distinct IP strings stored by successful calls under network key k.
InsertedIPs(k) ==
    { calls52[j].ip : j \in { c \in OkCalls : calls52[c].network = k } }

\* The lists of the table can be read: main has not yet released them with
\* freeIPList on its way to a return.
ListsLive52 ==
    pc52 \in {"ingest", "query"}

DedupInvariant ==
    \A i \in Slots52 :
        hashTable[i].occupied =>
            /\ hashTable[i].connectionCount
                   = Cardinality(InsertedIPs(hashTable[i].network))
            /\ ListsLive52 =>
                   /\ NoRepeat(hashTable[i].uniqueIPs)
                   /\ hashTable[i].connectionCount = Len(hashTable[i].uniqueIPs)

\* The step is an insertOrUpdate call for a network and an IP that the
\* slot of that network already lists.
RepeatedInsert ==
    /\ Len(calls52') = Len(calls52) + 1
    /\ \E i \in Slots52 :
           /\ hashTable[i].occupied
           /\ hashTable[i].network = calls52'[Len(calls52')].network
           /\ calls52'[Len(calls52')].ip \in Range(hashTable[i].uniqueIPs)

\* C3 (dedup invariant, Act5.2): in every occupied slot uniqueIPs holds no
\* IP twice and connectionCount is the length of the list and the number
\* of distinct IPs inserted under that key; a call with an IP already in
\* the list leaves every list and every connectionCount unchanged (when
\* the call returns false, main then releases the untouched lists).
C3_Dedup ==
    [][ /\ DedupInvariant'
        /\ RepeatedInsert =>
               /\ \A i \in Slots52 :
                      hashTable'[i].connectionCount = hashTable[i].connectionCount
               /\ IF calls52'[Len(calls52')].ok
                  THEN \A i \in Slots52 :
                           hashTable'[i].uniqueIPs = hashTable[i].uniqueIPs
                  ELSE hashTable' = ReleaseLists52(hashTable) ]_vars

\* A network was reached three times with two distinct IPs.
C3_Witness ==
    \E i \in Slots52 :
        /\ hashTable[i].occupied
        /\ hashTable[i].accessCount = 3
        /\ hashTable[i].connectionCount = 2

\* The insertOrUpdate calls made with network key k.
CallsWith(k) ==
    { j \in 1..Len(calls52) : calls52[j].network = k }

\* C4 (access counting, Act5.2): the accessCount of every occupied slot is
\* the number of insertOrUpdate calls made with its network key, and
\* accessCount >= connectionCount >= 1.
C4_AccessCountIsCallCount ==
    \A i \in Slots52 :
        hashTable[i].occupied =>
            /\ hashTable[i].accessCount = Cardinality(CallsWith(hashTable[i].network))
            /\ hashTable[i].accessCount >= hashTable[i].connectionCount
            /\ hashTable[i].connectionCount >= 1

\* C5 (capacity fault only on probe exhaustion, Act5.2): insertOrUpdate
\* returns false, and main exits with status 1, only when every slot is
\* occupied by a key other than the one of the call; a call whose key is
\* stored returns true, also when the table is full.
C5_FailureOnlyOnProbeExhaustion ==
    /\ pc52 = "exit1" <=> (calls52 # <<>> /\ ~calls52[Len(calls52)].ok)
    /\ \A j \in 1..Len(calls52) :
           ~calls52[j].ok =>
               \A i \in Slots52 :
                   hashTable[i].occupied /\ hashTable[i].network # calls52[j].network

\* The network keys of all insertOrUpdate calls.
CalledKeys52 ==
    { calls52[j].network : j \in 1..Len(calls52) }

\* C6 (query miss, Act5.2): a query for a key never inserted gets -1 from
\* searchNetwork and the two lines: the query, "Red no encontrada" (and
\* the separator when it is not the last); every query of the run is
\* answered, so a finished run of N queries has produced N answers.
C6_QueryMiss ==
    /\ \A k \in 1..Len(asked52) :
           asked52[k].query \notin CalledKeys52 =>
               /\ asked52[k].index = -1
               /\ asked52[k].at + 1 <= Len(out52)
               /\ out52[asked52[k].at] = asked52[k].query
               /\ out52[asked52[k].at + 1] = RedNoEncontrada
               /\ k < Len(asked52) =>
                      asked52[k + 1].at = asked52[k].at + 2 + (IF k < n52 THEN 1 ELSE 0)
               /\ k = Len(asked52) =>
                      Len(out52) = asked52[k].at + 1 + (IF k < n52 THEN 1 ELSE 0)
    /\ \A k \in 1..Len(asked52) : asked52[k].at <= Len(out52)
    /\ Len(asked52) = i52
    /\ pc52 = "done" => Len(asked52) = (IF n52 < 0 THEN 0 ELSE n52)

\* A finished run of two queries: the first missed although its home slot
\* is occupied, the second was found.
C6_Witness ==
    /\ pc52 = "done"
    /\ n52 = 2
    /\ asked52[1].index = -1
    /\ asked52[1].query \notin CalledKeys52
    /\ hashTable[hashFunction(asked52[1].query)].occupied
    /\ asked52[2].index # -1

\* The used slots of networkTable and of hostTable.
UsedNetworks ==
    { i \in Slots43 : networkTable[i].used }

UsedHosts ==
    { i \in Slots43 : hostTable[i].used }

\* The prefixes of the used network slots of maximal uniqueHostCount.
MaxNetworkPrefixes ==
    { networkTable[i].prefix :
        i \in { m \in UsedNetworks :
                  \A j \in UsedNetworks :
                      networkTable[j].uniqueHostCount <= networkTable[m].uniqueHostCount } }

\* The IPs of the used host slots of maximal entryCount.
MaxHostIPs ==
    { hostTable[i].ip :
        i \in { m \in UsedHosts :
                  \A j \in UsedHosts :
                      hostTable[j].entryCount <= hostTable[m].entryCount } }

\* C7 (tie-reporting completeness, Act4.3): the report is the prefixes of
\* exactly the used networks of maximal uniqueHostCount, each once, a blank
\* line, then the IPs of exactly the used hosts of maximal entryCount,
\* each once.
C7_ReportIsAllMaxima ==
    pc43 = "done" =>
        LET k == Cardinality(MaxNetworkPrefixes) + 1
            netPart == SubSeq(out43, 1, k - 1)
            hostPart == SubSeq(out43, k + 1, Len(out43))
        IN /\ k <= Len(out43)
           /\ out43[k] = <<>>
           /\ Range(netPart) = MaxNetworkPrefixes
           /\ NoRepeat(netPart)
           /\ Range(hostPart) = MaxHostIPs
           /\ NoRepeat(hostPart)
           /\ Len(hostPart) = Cardinality(MaxHostIPs)

\* Three networks tie for the maximum, two hosts tie for the maximum and a
\* third host has fewer entries.
C7_Witness ==
    /\ pc43 = "done"
    /\ Cardinality(MaxNetworkPrefixes) = 3
    /\ Cardinality(MaxHostIPs) = 2
    /\ Cardinality(UsedHosts) = 3

\* The distinct host IPs read so far whose network prefix is p.
HostsSeenIn(p) ==
    { ip \in Range(seen43) : prefixFromIP(ip) = p }

UniqueHostInvariant ==
    \A i \in Slots43 :
        networkTable[i].used =>
            networkTable[i].uniqueHostCount
                = Cardinality(HostsSeenIn(networkTable[i].prefix))

\* The step reads a line of a host that an earlier line already had.
RepeatedHost ==
    /\ Len(seen43') = Len(seen43) + 1
    /\ seen43'[Len(seen43')] \in Range(seen43)

\* C8 (unique-host counting, Act4.3): the uniqueHostCount of every used
\* network slot is the number of distinct host IPs read whose prefixFromIP
\* is its prefix; a line of a known host changes no uniqueHostCount.
C8_UniqueHostCount ==
    [][ /\ UniqueHostInvariant'
        /\ RepeatedHost =>
               \A i \in Slots43 :
                   networkTable'[i].uniqueHostCount = networkTable[i].uniqueHostCount ]_vars

\* A network has two hosts and one host was read twice.
C8_Witness ==
    /\ \E i \in Slots43 : networkTable[i].used /\ networkTable[i].uniqueHostCount = 2
    /\ \E j, k \in 1..Len(seen43) : j < k /\ seen43[j] = seen43[k]
    /\ Cardinality(UsedNetworks) = 2

\* C9 (per-network sorted view, Act5.2): sortIPList leaves a permutation of
\* the list it was given, in ascending order: compareIPs(b, a) is false
\* for every consecutive pair (a, b).
C9_SortedPermutation ==
    (fnName = "sortIPList" /\ fnPc = "done") =>
        /\ IsPermutation(FormatAll(fnArgs), sortRes)
        /\ \A k \in 1..(Len(sortRes) - 1) : ~compareIPs(sortRes[k + 1], sortRes[k])

\* A list of three distinct addresses that was neither sorted nor in
\* reverse order, so that a node went between two others.
C9_Witness ==
    /\ fnName = "sortIPList"
    /\ fnPc = "done"
    /\ Len(fnArgs) = 3
    /\ NoRepeat(fnArgs)
    /\ sortRes # FormatAll(fnArgs)
    /\ sortRes # [k \in 1..3 |-> FormatIP(fnArgs[4 - k])]

\* Octet tuple a is less than octet tuple b, octet 1 first.
NumericLess(a, b) ==
    \E i \in 1..4 : a[i] < b[i] /\ \A j \in 1..(i - 1) : a[j] = b[j]

\* C10 (numeric IP ordering): compareIPs(A, B) is true exactly when the
\* octet tuple of A is less than that of B, comparing octets 1 to 4 as
\* integers; compareIPs(A, A) is false.
C10_CompareIsNumeric ==
    (fnName = "compareIPs" /\ fnPc = "done") =>
        cmpRes = NumericLess(fnArgs[1], fnArgs[2])

\* Equal first three octets, 9 against 10 in the fourth: true, although
\* the text "9" follows the text "10".
C10_Witness ==
    /\ fnName = "compareIPs"
    /\ fnPc = "done"
    /\ \A j \in 1..3 : fnArgs[1][j] = fnArgs[2][j]
    /\ fnArgs[1][4] = 9
    /\ fnArgs[2][4] = 10
    /\ cmpRes = TRUE

\* The four octets of the address of each line of the file, as Act3_4
\* reads them.
Key34 ==
    [l \in Lines34 |->
        LET E == ParseLine34(l)
        IN <<E.ip1, E.ip2, E.ip3, E.ip4>>]

\* The addresses of the lines read so far.
ReadKeys34 ==
    { Key34[l] : l \in { x \in Lines34 : seen34[x] > 0 } }

RECURSIVE SumSeen34(_)
SumSeen34(ls) ==
    IF ls = {} THEN 0
    ELSE LET l == CHOOSE x \in ls : TRUE
         IN seen34[l] + SumSeen34(ls \ {l})

\* The number of lines read with each address.
Count34 ==
    [k \in ReadKeys34 |-> SumSeen34({ l \in Lines34 : Key34[l] = k })]

\* s with every run of equal neighbours reduced to one element.
RECURSIVE Compress(_)
Compress(s) ==
    IF Len(s) <= 1 THEN s
    ELSE IF s[1] = s[2] THEN Compress(Tail(s))
    ELSE <<s[1]>> \o Compress(Tail(s))

\* The addresses of the printed groups, in the order of the report.
Groups34 ==
    Compress([i \in 1..Len(out34) |-> Key34[out34[i]]])

\* Address a is numerically larger than b: the first differing octet is.
OctetsGreater(a, b) ==
    \E i \in 1..4 : a[i] > b[i] /\ \A j \in 1..(i - 1) : a[j] = b[j]

\* a goes before b in the ranking by the counts count: more accesses, or as
\* many and the larger address.
RankedBefore(count, a, b) ==
    \/ count[a] > count[b]
    \/ count[a] = count[b] /\ OctetsGreater(a, b)

\* C11 (top-K ranking, Act3_4): the report prints the groups by access
\* count descending, equal counts by the octets descending; it prints
\* exactly min(5, number of distinct addresses) groups, the first ones of
\* that ranking; each printed group holds every line read with its address,
\* as often as it was read; the first group has a maximal access count.
C11_TopFiveRanking ==
    pc34 = "done" =>
        /\ \A i \in 1..Len(out34) : out34[i] \in Lines34
        /\ LET groups == Groups34
               count == Count34
           IN /\ NoRepeat(groups)
              /\ Range(groups) \subseteq ReadKeys34
              /\ Len(groups) = (IF Cardinality(ReadKeys34) < 5
                                THEN Cardinality(ReadKeys34) ELSE 5)
              /\ \A l \in Lines34 :
                     Key34[l] \in Range(groups) =>
                         Cardinality({ i \in 1..Len(out34) : out34[i] = l }) = seen34[l]
              /\ \A i \in 1..(Len(groups) - 1) :
                     RankedBefore(count, groups[i], groups[i + 1])
              /\ \A p \in Range(groups) :
                     \A u \in ReadKeys34 \ Range(groups) : RankedBefore(count, p, u)
              /\ groups # <<>> => \A k \in ReadKeys34 : count[groups[1]] >= count[k]

\* Six addresses were read; the one read twice, with two ports, leads the
\* report, 10.10.0.1 is printed right before 10.2.0.1 with as many accesses,
\* and the smallest address is left out.
C11_Witness ==
    /\ pc34 = "done"
    /\ Cardinality(ReadKeys34) = 6
    /\ Len(Groups34) = 5
    /\ Count34[Groups34[1]] = 2
    /\ out34[1] # out34[2]
    /\ \E i \in 1..4 :
           /\ Groups34[i] = <<10, 10, 0, 1>>
           /\ Groups34[i + 1] = <<10, 2, 0, 1>>
    /\ <<1, 1, 1, 2>> \notin Range(Groups34)

\* The nodes reached from n by next pointers, in that order; the walk stops
\* after fuel nodes.
RECURSIVE NodesFrom(_, _, _)
NodesFrom(heap, n, fuel) ==
    IF n = 0 \/ fuel = 0 THEN <<>>
    ELSE <<n>> \o NodesFrom(heap, heap[n].next, fuel - 1)

\* The list of Act2.3 from head to tail, as node numbers. Node n holds the
\* n-th line of the file.
Forward23 ==
    NodesFrom(nodes23, head23, Len(nodes23) + 1)

\* x goes before y: the first differing number of x is the smaller one.
TupleLess(x, y) ==
    \E i \in 1..Len(x) : x[i] < y[i] /\ \A j \in 1..(i - 1) : x[j] = y[j]

Octets(e) ==
    <<e.ip1, e.ip2, e.ip3, e.ip4>>

\* b may follow a in a list sorted by address, then time, then message.
InOrder23(a, b) ==
    \/ TupleLess(Octets(a) \o <<a.totalTime>>, Octets(b) \o <<b.totalTime>>)
    \/ /\ Octets(a) = Octets(b)
       /\ a.totalTime = b.totalTime
       /\ ~StrLess(b.reason, a.reason)

Reverse(s) ==
    [i \in 1..Len(s) |-> s[Len(s) + 1 - i]]

\* C12 (merge sort correctness, Act2.3): mergeSortList leaves a list that
\* holds every node of the input list exactly once, each with its record
\* unchanged, and no node is less (lessEntry) than the node before it: the
\* list ascends by address octets, then totalTime, then message.
C12_MergeSortSortsThePermutation ==
    [][(pc23 = "read" /\ pc23' = "sorted") =>
          LET ids == NodesFrom(nodes23', head23', Len(nodes23) + 1)
          IN /\ Len(nodes23') = Len(nodes23)
             /\ \A n \in 1..Len(nodes23) : nodes23'[n].data = nodes23[n].data
             /\ Len(ids) = Len(nodes23)
             /\ Range(ids) = 1..Len(nodes23)
             /\ \A i \in 1..(Len(ids) - 1) :
                    /\ ~lessEntry(nodes23'[ids[i + 1]].data, nodes23'[ids[i]].data)
                    /\ InOrder23(nodes23'[ids[i]].data, nodes23'[ids[i + 1]].data)
             /\ file23' = [i \in 1..Len(ids) |-> nodes23'[ids[i]].data.originLine]]_vars

\* Four lines were read in descending order and the sort has reversed them:
\* a pair ordered by the time, a pair ordered by the message, and 9.1.1.1
\* before 10.1.1.1.
C12_Witness ==
    /\ pc23 = "sorted"
    /\ Forward23 = <<4, 3, 2, 1>>
    /\ nodes23[1].data.ip1 = 10
    /\ nodes23[2].data.ip1 = 9
    /\ nodes23[3].data.totalTime = nodes23[2].data.totalTime
    /\ nodes23[3].data.reason # nodes23[2].data.reason
    /\ nodes23[4].data.ip1 = 9
    /\ nodes23[4].data.totalTime < nodes23[3].data.totalTime

\* The octets of each address that may be typed for the range.
RangeOctets23 ==
    [ip \in RangeIPs23 |->
        LET s == splitIp(ip)
        IN <<s.a, s.b, s.c, s.d>>]

\* The two ends of the typed range, the smaller first, as octets.
Low23 ==
    IF TupleLess(RangeOctets23[range23[2]], RangeOctets23[range23[1]])
    THEN RangeOctets23[range23[2]] ELSE RangeOctets23[range23[1]]

High23 ==
    IF TupleLess(RangeOctets23[range23[2]], RangeOctets23[range23[1]])
    THEN RangeOctets23[range23[1]] ELSE RangeOctets23[range23[2]]

\* The address of record e lies in [low, high].
InRange(e, low, high) ==
    /\ ~TupleLess(Octets(e), low)
    /\ ~TupleLess(high, Octets(e))

\* C13 (range query prints no out-of-range record, Act2.3): every printed
\* line is the line of a record whose address lies in [low, high]; when no
\* record lies in the range (below, above or in a gap) nothing is printed.
C13_NoOutOfRangeRecord ==
    (pc23 = "done" /\ range23 # <<>>) =>
        LET low == Low23
            high == High23
        IN /\ \A i \in 1..Len(out23) :
                  \E n \in 1..Len(nodes23) :
                      /\ nodes23[n].data.originLine = out23[i]
                      /\ InRange(nodes23[n].data, low, high)
           /\ (\A n \in 1..Len(nodes23) : ~InRange(nodes23[n].data, low, high))
                  => out23 = <<>>

\* The nodes of the sorted list whose address lies in the typed range, in
\* the order of the list.
InRangeNodes23 ==
    LET low == Low23
        high == High23
    IN SelectSeq(Forward23, LAMBDA n : InRange(nodes23[n].data, low, high))

\* C14 (range query completeness and order, Act2.3): when a record lies in
\* [low, high], the report prints the records in the range, each once, in
\* the reverse of their order in the sorted list; for a range from the
\* smallest to the largest address these are all the records.
C14_RangeCompleteReversed ==
    (pc23 = "done" /\ range23 # <<>>) =>
        LET inside == InRangeNodes23
        IN inside # <<>> =>
               /\ out23 = Reverse([i \in 1..Len(inside) |->
                                      nodes23[inside[i]].data.originLine])
               /\ Len(inside) = Len(nodes23) => out23 = Reverse(file23)

\* Four records, the typed range holds the middle two (both ends are stored
\* addresses) and leaves out one record on each side.
C14_Witness ==
    /\ pc23 = "done"
    /\ range23 # <<>>
    /\ Len(nodes23) = 4
    /\ InRangeNodes23 = SubSeq(Forward23, 2, 3)
    /\ Len(out23) = 2
    /\ out23[1] # out23[2]

\* C15 (range query order-independence, Act2.3): the report printed for the
\* typed pair (a, b) is the report for the pair (b, a), line by line.
C15_RangeOrderIndependent ==
    (pc23 = "done" /\ range23 # <<>>) =>
        out23 = RangeReport23(nodes23, head23, tail23, range23[2], range23[1])

\* The larger address was typed first and two records were printed.
C15_Witness ==
    /\ pc23 = "done"
    /\ range23 # <<>>
    /\ Low23 # High23
    /\ Low23 = RangeOctets23[range23[2]]
    /\ Len(out23) >= 2
    /\ Len(out23) < Len(nodes23)

\* C17 (merge stability, Act2.3): after mergeSortList two records that are
\* equal under lessEntry (neither is less: same octets, totalTime and
\* message, for example with different ports) stand in the order in which
\* they were read.
C17_MergeIsStable ==
    pc23 \in {"sorted", "done"} =>
        \A i, j \in 1..Len(Forward23) :
            (/\ i < j
             /\ ~lessEntry(nodes23[Forward23[i]].data, nodes23[Forward23[j]].data)
             /\ ~lessEntry(nodes23[Forward23[j]].data, nodes23[Forward23[i]].data))
                => Forward23[i] < Forward23[j]

\* The records the list holds.
Records23 ==
    { nodes23[n].data : n \in 1..Len(nodes23) }

\* C18 as claimed (comparator totality, Act2.3): lessEntry is irreflexive
\* and transitive, and of two records with different original lines exactly
\* one is less than the other.
C18_StrictTotalOrder ==
    /\ \A a \in Records23 : ~lessEntry(a, a)
    /\ \A a, b, c \in Records23 : (lessEntry(a, b) /\ lessEntry(b, c)) => lessEntry(a, c)
    /\ \A a, b \in Records23 :
           a.originLine # b.originLine => (lessEntry(a, b) # lessEntry(b, a))

\* C18 as amended: lessEntry is irreflexive and transitive; of two records
\* that differ in an octet, in totalTime or in the message exactly one is
\* less than the other; two records equal in all of these (for example
\* lines that differ only in the port) are not ordered either way.
C18_StrictWeakOrder ==
    /\ \A a \in Records23 : ~lessEntry(a, a)
    /\ \A a, b, c \in Records23 : (lessEntry(a, b) /\ lessEntry(b, c)) => lessEntry(a, c)
    /\ \A a, b \in Records23 :
           IF Octets(a) # Octets(b) \/ a.totalTime # b.totalTime \/ a.reason # b.reason
           THEN lessEntry(a, b) # lessEntry(b, a)
           ELSE ~lessEntry(a, b) /\ ~lessEntry(b, a)

\* The list holds two lines that differ only in the port, a third that
\* differs from them only in the message, and a chain of three records.
C18_Witness ==
    /\ \E a, b \in Records23 :
           /\ a.originLine # b.originLine
           /\ a.port # b.port
           /\ ~lessEntry(a, b) /\ ~lessEntry(b, a)
           /\ \E c \in Records23 :
                  /\ Octets(c) = Octets(a)
                  /\ c.totalTime = a.totalTime
                  /\ lessEntry(c, a)
    /\ \E a, b, c \in Records23 : lessEntry(a, b) /\ lessEntry(b, c)

\* The places of the blank lines of the output of Act5.2.
BlankLines52 ==
    { i \in 1..Len(out52) : out52[i] = <<>> }

\* C16 (answer separation, Act5.2): while the queries are answered and at
\* the end, a blank line stands right after each answer that is not the
\* N-th and nowhere else; so N >= 1 queries leave N answers, N - 1 blank
\* lines, and no blank line after the last answer.
C16_AnswerSeparation ==
    pc52 \in {"query", "done"} =>
        /\ Len(asked52) = i52
        /\ BlankLines52 =
               { asked52[k].at - 1 : k \in 2..Len(asked52) }
                   \cup (IF Len(asked52) >= 1 /\ Len(asked52) < n52
                         THEN {Len(out52)} ELSE {})
        /\ \A k \in 1..Len(asked52) :
               /\ asked52[k].at <= Len(out52)
               /\ out52[asked52[k].at] # <<>>
        /\ (pc52 = "done" /\ n52 >= 1) =>
               /\ Len(asked52) = n52
               /\ Cardinality(BlankLines52) = n52 - 1
               /\ out52[Len(out52)] # <<>>

\* Two queries were answered, one found with two addresses and one not
\* found; one blank line stands between the answers and none at the end.
C16_Witness ==
    /\ pc52 = "done"
    /\ n52 = 2
    /\ \E k \in 1..2 : asked52[k].index = -1
    /\ \E k \in 1..2 :
           /\ asked52[k].index # -1
           /\ hashTable[asked52[k].index].connectionCount = 2
    /\ Cardinality(BlankLines52) = 1
    /\ Len(out52) = 8

\* The slots a probe that starts at slot home visits up to slot i, in a
\* table of size slots.
ProbePath(home, i, size) ==
    { (home + d) % size : d \in 0..((i - home + size) % size) }

\* C19 (probe-chain invariant): in every reachable state of hashTable
\* (Act5.2), hostTable and networkTable (Act4.3), every slot on the cyclic
\* probe path from the home slot of a stored key up to the slot that holds
\* it is occupied: no stored key lies behind an empty slot.
C19_ProbeChain ==
    /\ \A i \in Slots52 :
           hashTable[i].occupied =>
               \A j \in ProbePath(hashFunction(hashTable[i].network), i, TABLE_SIZE) :
                   hashTable[j].occupied
    /\ \A i \in Slots43 :
           hostTable[i].used =>
               \A j \in ProbePath(Mod32(hashString(hostTable[i].ip), TABLE_SIZE_43), i,
                                  TABLE_SIZE_43) :
                   hostTable[j].used
    /\ \A i \in Slots43 :
           networkTable[i].used =>
               \A j \in ProbePath(Mod32(hashString(networkTable[i].prefix), TABLE_SIZE_43),
                                  i, TABLE_SIZE_43) :
                   networkTable[j].used

\* A network is stored before its home slot (its probe wrapped around the
\* end of the table) while another slot of networkTable is still free, and
\* a host is stored away from its home slot.
C19_Witness ==
    /\ \E i \in Slots43 :
           /\ networkTable[i].used
           /\ i < Mod32(hashString(networkTable[i].prefix), TABLE_SIZE_43)
    /\ \E i \in Slots43 : ~networkTable[i].used
    /\ \E i \in Slots43 :
           /\ hostTable[i].used
           /\ i # Mod32(hashString(hostTable[i].ip), TABLE_SIZE_43)

\* The addresses of the lines the file of Act4.3 may hold.
Ips43 ==
    { IpOfField(l.ipPort) : l \in Lines43 }

\* Some used slot of hostTable holds ip.
Stored43(ip) ==
    \E i \in Slots43 : hostTable[i].used /\ hostTable[i].ip = ip

\* C20 (creation flag, Act4.3): a call getHostIndex(ip, isNew) that returns
\* sets isNew to true exactly when no used slot held ip before the call,
\* and then it has turned one empty slot into a used one with ip,
\* entryCount 0 and entryCap 10; it sets isNew to false exactly when ip was
\* stored, and then it returns the slot of ip and changes no slot. The call
\* does not return (exit 1) only when ip is not stored and no slot is free.
C20_CreationFlag ==
    pc43 = "ingest" =>
        \A ip \in Ips43 :
            LET r == getHostIndex(hostTable, ip)
            IN IF r.full
               THEN ~Stored43(ip) /\ \A i \in Slots43 : hostTable[i].used
               ELSE /\ r.isNew = ~Stored43(ip)
                    /\ r.isNew =>
                           /\ ~hostTable[r.index].used
                           /\ r.table[r.index].used
                           /\ r.table[r.index].ip = ip
                           /\ r.table[r.index].entryCount = 0
                           /\ r.table[r.index].entryCap = 10
                           /\ \A i \in Slots43 \ {r.index} : r.table[i] = hostTable[i]
                    /\ ~r.isNew =>
                           /\ hostTable[r.index].used
                           /\ hostTable[r.index].ip = ip
                           /\ r.table = hostTable

\* One host is stored behind another one, away from its home slot, and a
\* call with it does not create; a host that is not stored and whose home
\* slot is taken is created in the slot that is still free.
C20_Witness ==
    /\ pc43 = "ingest"
    /\ \E ip \in Ips43 :
           /\ Stored43(ip)
           /\ getHostIndex(hostTable, ip).index # Mod32(hashString(ip), TABLE_SIZE_43)
           /\ ~getHostIndex(hostTable, ip).isNew
    /\ \E ip \in Ips43 :
           /\ ~Stored43(ip)
           /\ hostTable[Mod32(hashString(ip), TABLE_SIZE_43)].used
           /\ getHostIndex(hostTable, ip).isNew

\* The Entry that 4.3.5 writes for a tokenised line.
EntryOf43(line) ==
    [date |-> line.month \o <<Ascii[" "]>> \o line.day, time |-> line.timeStr,
     port |-> IF Find(line.ipPort, Ascii[":"], 1) = 0 THEN <<>>
              ELSE SubSeq(line.ipPort, Find(line.ipPort, Ascii[":"], 1) + 1,
                          Len(line.ipPort)),
     message |-> line.message]

\* The lines read so far whose address is ip, in the order they were read.
LinesOf43(ip) ==
    SelectSeq(read43, LAMBDA l : IpOfField(l.ipPort) = ip)

\* C21 (append order survives growth, Act4.3): for every host, after any
\* number of ingested lines, entryCount is the number of lines ingested for
\* its IP and entries[0..entryCount-1] are the entries of those lines in
\* the order they were ingested, also after the array has been doubled
\* (until 4.6 releases the array).
C21_AppendOrderSurvivesGrowth ==
    \A i \in Slots43 :
        hostTable[i].used =>
            LET ls == LinesOf43(hostTable[i].ip)
            IN /\ hostTable[i].entryCount = Len(ls)
               /\ pc43 = "ingest" =>
                      \A k \in 1..Len(ls) : hostTable[i].entries[k] = EntryOf43(ls[k])

\* The array of a host has been doubled with ten entries in it, the first
\* of them with port 81 and the second with port 80, and the eleventh entry
\* is stored behind them.
C21_Witness ==
    /\ pc43 = "ingest"
    /\ \E i \in Slots43 :
           /\ hostTable[i].used
           /\ hostTable[i].entryCap = 20
           /\ hostTable[i].entryCount = 11
           /\ hostTable[i].entries[1].port = S(<<"8", "1">>)
           /\ hostTable[i].entries[2].port = S(<<"8", "0">>)
           /\ hostTable[i].entries[11].port = S(<<"8", "1">>)

\* n is 10 times a power of two.
RECURSIVE TenTimesPowerOfTwo(_)
TenTimesPowerOfTwo(n) ==
    IF n <= 10 THEN n = 10
    ELSE n % 2 = 0 /\ TenTimesPowerOfTwo(n \div 2)

\* C28 (growth invariant, Act4.3): every used host slot has
\* 0 <= entryCount <= entryCap with entryCap 10 times a power of two, and
\* while lines are read the array holds entryCap elements, so that every
\* entry counted was written inside the allocated array.
C28_GrowthInvariant ==
    \A i \in Slots43 :
        hostTable[i].used =>
            /\ 0 <= hostTable[i].entryCount
            /\ hostTable[i].entryCount <= hostTable[i].entryCap
            /\ TenTimesPowerOfTwo(hostTable[i].entryCap)
            /\ pc43 = "ingest" =>
                   /\ Len(hostTable[i].entries) = hostTable[i].entryCap
                   /\ \A k \in 1..hostTable[i].entryCount :
                          hostTable[i].entries[k] # NoEntry

\* A full array of 10 entries has been doubled for the eleventh line: the
\* entry is counted and the twelfth element is still unwritten.
C28_Witness ==
    /\ pc43 = "ingest"
    /\ nread43 = 11
    /\ \E i \in Slots43 :
           /\ hostTable[i].used
           /\ hostTable[i].entryCap = 20
           /\ Len(hostTable[i].entries) = 20
           /\ hostTable[i].entryCount = 11
           /\ hostTable[i].entries[12] = NoEntry

\* Every element of sequence s is an element of sequence t.
KeepsAll(s, t) ==
    \A k \in 1..Len(s) : \E j \in 1..Len(t) : t[j] = s[k]

\* C22 (monotonic index, Act5.2 and Act4.3): in every step of a run a slot
\* that is occupied stays occupied with the same key, and its accessCount,
\* connectionCount, entryCount and uniqueHostCount do not decrease; no
\* step of the ingestion or of the queries removes a stored IP or entry
\* (the steps that end main release the lists and the arrays).
C22_MonotonicIndex ==
    [][/\ \A i \in Slots52 :
              hashTable[i].occupied =>
                  /\ hashTable'[i].occupied
                  /\ hashTable'[i].network = hashTable[i].network
                  /\ hashTable'[i].accessCount >= hashTable[i].accessCount
                  /\ hashTable'[i].connectionCount >= hashTable[i].connectionCount
                  /\ pc52' \notin {"done", "exit1"} =>
                         KeepsAll(hashTable[i].uniqueIPs, hashTable'[i].uniqueIPs)
       /\ \A i \in Slots43 :
              hostTable[i].used =>
                  /\ hostTable'[i].used
                  /\ hostTable'[i].ip = hostTable[i].ip
                  /\ hostTable'[i].entryCount >= hostTable[i].entryCount
                  /\ pc43' # "done" =>
                         \A k \in 1..hostTable[i].entryCount :
                             hostTable'[i].entries[k] = hostTable[i].entries[k]
       /\ \A i \in Slots43 :
              networkTable[i].used =>
                  /\ networkTable'[i].used
                  /\ networkTable'[i].prefix = networkTable[i].prefix
                  /\ networkTable'[i].uniqueHostCount >= networkTable[i].uniqueHostCount
      ]_vars

\* A network of Act5.2 has been updated after its creation, holds two IPs
\* and has been asked for, with a second network in the table.
C22_Witness ==
    /\ pc52 = "query"
    /\ asked52 # <<>>
    /\ \E i, j \in Slots52 :
           /\ i # j
           /\ hashTable[i].occupied
           /\ hashTable[j].occupied
           /\ hashTable[i].accessCount >= 3
           /\ hashTable[i].connectionCount = 2
           /\ asked52[1].index = i

\* The slots of hashTable with occupied == true, in table tbl.
Occupied52(tbl) ==
    { i \in Slots52 : tbl[i].occupied }

\* C30 (item counter, Act5.2): in every reachable state itemCount is the
\* number of occupied slots and is at most TABLE_SIZE; a step increments it
\* (by one) exactly when it makes an empty slot occupied, which only the
\* create path of insertOrUpdate does, and no step changes it otherwise.
C30_ItemCounter ==
    /\ [](/\ itemCount = Cardinality(Occupied52(hashTable))
          /\ itemCount <= TABLE_SIZE)
    /\ [][/\ itemCount' = itemCount + Cardinality(Occupied52(hashTable') \ Occupied52(hashTable))
          /\ itemCount' # itemCount =>
                 /\ itemCount' = itemCount + 1
                 /\ Len(calls52') = Len(calls52) + 1
                 /\ calls52'[Len(calls52')].ok
                 /\ \A i \in Occupied52(hashTable) :
                        hashTable[i].network # calls52'[Len(calls52')].network
          /\ (/\ Len(calls52') = Len(calls52) + 1
              /\ calls52'[Len(calls52')].ok
              /\ \A i \in Occupied52(hashTable) :
                     hashTable[i].network # calls52'[Len(calls52')].network)
                 => itemCount' = itemCount + 1
         ]_vars

\* The table is full (itemCount = TABLE_SIZE) after more successful calls
\* than there are slots: some calls took the update path and did not count.
C30_Witness ==
    /\ itemCount = TABLE_SIZE
    /\ Cardinality(OkCalls) > TABLE_SIZE
    /\ \E i \in Slots52 : hashTable[i].accessCount >= 2

\* The lines of the answer to the j-th query: from where it starts to the
\* line before the next answer or the end of the output, without the blank
\* line that follows every answer but the n-th.
AnswerOf52(j) ==
    SubSeq(out52, asked52[j].at,
           (IF j < Len(asked52) THEN asked52[j + 1].at - 1 ELSE Len(out52))
               - (IF j < n52 THEN 1 ELSE 0))

\* C26 (queries are read-only on the aggregates, Act5.2): a query changes
\* no slot's occupied flag, network, accessCount, connectionCount or set
\* of IP strings, nor itemCount (only the order of the uniqueIPs of the
\* network found may change), and two queries for the same network in one
\* run get the same answer.
C26_QueriesReadOnly ==
    /\ [](\A j, k \in 1..Len(asked52) :
              asked52[j].query = asked52[k].query => AnswerOf52(j) = AnswerOf52(k))
    /\ [][Len(asked52') > Len(asked52) =>
              /\ itemCount' = itemCount
              /\ \A i \in Slots52 :
                     /\ hashTable'[i].occupied = hashTable[i].occupied
                     /\ hashTable'[i].network = hashTable[i].network
                     /\ hashTable'[i].accessCount = hashTable[i].accessCount
                     /\ hashTable'[i].connectionCount = hashTable[i].connectionCount
                     /\ IsPermutation(hashTable'[i].uniqueIPs, hashTable[i].uniqueIPs)
                     /\ i # asked52'[Len(asked52')].index =>
                            hashTable'[i].uniqueIPs = hashTable[i].uniqueIPs
         ]_vars

\* The same network has been asked twice and found; it holds two IPs, the
\* first inserted of which now stands first: the first query reordered the
\* list, which addIP had built in the reverse order.
C26_Witness ==
    /\ Len(asked52) = 2
    /\ asked52[1].query = asked52[2].query
    /\ asked52[1].index # -1
    /\ Len(hashTable[asked52[1].index].uniqueIPs) = 2
    /\ \E c \in OkCalls :
           /\ calls52[c].network = asked52[1].query
           /\ \A b \in 1..(c - 1) : calls52[b].network # asked52[1].query
           /\ hashTable[asked52[1].index].uniqueIPs[1] = calls52[c].ip

\* The nodes reached from n by prev pointers, in that order; the walk stops
\* after fuel nodes.
RECURSIVE NodesBack(_, _, _)
NodesBack(heap, n, fuel) ==
    IF n = 0 \/ fuel = 0 THEN <<>>
    ELSE <<n>> \o NodesBack(heap, heap[n].prev, fuel - 1)

\* The list that starts at head is a consistent doubly linked list: head has
\* no prev, the walk by next ends at nullptr and meets no node twice, every
\* node is the prev of its next, and the walk by prev from any node meets
\* the nodes before it, last to first.
WellLinked(heap, head) ==
    LET f == NodesFrom(heap, head, Len(heap) + 1)
    IN head # 0 =>
           /\ heap[head].prev = 0
           /\ Len(f) <= Len(heap)
           /\ NoRepeat(f)
           /\ heap[f[Len(f)]].next = 0
           /\ \A k \in 1..(Len(f) - 1) : heap[heap[f[k]].next].prev = f[k]
           /\ \A k \in 1..Len(f) :
                  NodesBack(heap, f[k], Len(heap) + 1) = Reverse(SubSeq(f, 1, k))

\* Every call of mergeSortList and of mergeSortedLists that sorting the list
\* at start makes returns a consistent list.
RECURSIVE SortKeepsLinks(_, _)
SortKeepsLinks(heap, start) ==
    IF start = 0 THEN TRUE
    ELSE IF heap[start].next = 0 THEN TRUE
    ELSE LET slow == Middle(heap, start, start)
             secondHalf == heap[slow].next
             cut == [heap EXCEPT ![slow].next = 0, ![secondHalf].prev = 0]
             leftSorted == mergeSortList(cut, start)
             rightSorted == mergeSortList(leftSorted.heap, secondHalf)
             merged == mergeSortedLists(rightSorted.heap, leftSorted.head, rightSorted.head)
         IN /\ SortKeepsLinks(cut, start)
            /\ SortKeepsLinks(leftSorted.heap, secondHalf)
            /\ WellLinked(leftSorted.heap, leftSorted.head)
            /\ WellLinked(rightSorted.heap, rightSorted.head)
            /\ WellLinked(merged.heap, merged.head)
            /\ merged = mergeSortList(heap, start)

\* C27 (doubly-linked consistency, Act2.3): the list every call of
\* mergeSortedLists and of mergeSortList returns has a head without prev, a
\* last node without next, and n->next->prev == n for every node with a
\* successor, so that the walk backwards from a node meets the nodes before
\* it in reverse order; after the sort, tail is the last node.
C27_DoublyLinkedConsistency ==
    /\ pc23 = "read" => SortKeepsLinks(nodes23, head23)
    /\ pc23 \in {"sorted", "done"} =>
           /\ WellLinked(nodes23, head23)
           /\ tail23 = (IF head23 = 0 THEN 0 ELSE LastFrom(nodes23, head23))
           /\ NodesBack(nodes23, tail23, Len(nodes23) + 1) = Reverse(Forward23)

\* Four nodes have been sorted into the reverse of the order they were
\* read in: every link of the list was rewritten.
C27_Witness ==
    /\ pc23 = "sorted"
    /\ Forward23 = <<4, 3, 2, 1>>
    /\ NodesBack(nodes23, tail23, 5) = <<1, 2, 3, 4>>
    /\ nodes23[4].prev = 0
    /\ nodes23[1].next = 0

\* The number of nodes of the list that starts at n.
Size23(heap, n) ==
    Len(NodesFrom(heap, n, Len(heap) + 1))

\* Every split that sorting the list at start makes, the splits of the
\* recursive calls included, cuts a list of n >= 2 nodes into a first half
\* of ceil(n/2) nodes and a second half of floor(n/2) nodes, both with at
\* least one node and fewer than n.
RECURSIVE SplitsInHalves(_, _)
SplitsInHalves(heap, start) ==
    IF start = 0 THEN TRUE
    ELSE IF heap[start].next = 0 THEN TRUE
    ELSE LET n == Size23(heap, start)
             slow == Middle(heap, start, start)
             secondHalf == heap[slow].next
             cut == [heap EXCEPT ![slow].next = 0, ![secondHalf].prev = 0]
         IN /\ secondHalf # 0
            /\ Size23(cut, start) = (n + 1) \div 2
            /\ Size23(cut, secondHalf) = n \div 2
            /\ Size23(cut, start) \in 1..(n - 1)
            /\ Size23(cut, secondHalf) \in 1..(n - 1)
            /\ SplitsInHalves(cut, start)
            /\ SplitsInHalves(mergeSortList(cut, start).heap, secondHalf)

\* C29 (merge sort terminates, Act2.3): for every list of n >= 2 nodes the
\* slow/fast split of mergeSortList, at every depth of the recursion, yields
\* two non-empty halves of ceil(n/2) and floor(n/2) nodes, both shorter
\* than n; the sort of every list that was read completes and returns all
\* of its nodes.
C29_SplitHalvesShrink ==
    /\ pc23 = "read" => SplitsInHalves(nodes23, head23)
    /\ pc23 = "sorted" =>
           /\ Len(Forward23) = Len(nodes23)
           /\ Len(file23) = Len(nodes23)

\* A list of three nodes has been sorted: it was cut into two nodes and one,
\* and the two nodes into one and one.
C29_Witness ==
    /\ pc23 = "sorted"
    /\ Len(nodes23) = 3
    /\ Len(Forward23) = 3

\* The number of dots of the text s.
Dots(s) ==
    Cardinality({k \in 1..Len(s) : s[k] = Ascii["."]})

\* C23 (ill-formed IP prefix policy, Act5.2): extractNetwork(ip) returns the
\* text of the first two octets when ip has at least two dots, and ip
\* itself, unchanged, when it has fewer than two dots.
C23_IllFormedPrefixPolicy ==
    (fnName = "extractNetwork" /\ fnPc = "done") =>
        IF Dots(fnArgs[1]) >= 2
        THEN /\ Dots(fnRes) = 1
             /\ Len(fnRes) < Len(fnArgs[1])
             /\ SubSeq(fnArgs[1], 1, Len(fnRes) + 1) = fnRes \o <<Ascii["."]>>
        ELSE fnRes = fnArgs[1]

\* C24 (composite key agrees with sort order, Act2.3): for two records with
\* every octet in 0..255, the composite (ip1<<24)|(ip2<<16)|(ip3<<8)|ip4 of
\* a is less than that of b exactly when the octets of a go before those of
\* b octet by octet, which is when lessEntry puts a before b if nothing
\* else differs; the composites are equal only for equal octets.
C24_CompositeKeyAgrees ==
    (fnName = "ipVal" /\ fnPc = "done") =>
        /\ fnRes.keyLess = TupleLess(fnArgs[1], fnArgs[2])
        /\ fnRes.keyLess = fnRes.less
        /\ (IpVal(fnArgs[1][1], fnArgs[1][2], fnArgs[1][3], fnArgs[1][4])
                = IpVal(fnArgs[2][1], fnArgs[2][2], fnArgs[2][3], fnArgs[2][4]))
               = (fnArgs[1] = fnArgs[2])

\* 0.255.255.255 against 1.0.0.0: the first octet decides against the three
\* that follow it, and the key comparison says so.
C24_Witness ==
    /\ fnName = "ipVal"
    /\ fnPc = "done"
    /\ fnArgs[1] = <<0, 255, 255, 255>>
    /\ fnArgs[2] = <<1, 0, 0, 0>>
    /\ fnRes.keyLess
    /\ fnRes.less

\* C25 (sortKey monotonicity): for months 1..12, days 1..31, hours 0..23,
\* minutes and seconds 0..59, total_time(a) < total_time(b) exactly when
\* the tuple (month, day, hour, minute, second) of a is lexicographically
\* less than that of b, and the two are equal only for equal tuples.
C25_TotalTimeMonotonic ==
    (fnName = "total_time" /\ fnPc = "done") =>
        /\ (fnRes[1] < fnRes[2]) = TupleLess(fnArgs[1], fnArgs[2])
        /\ (fnRes[1] = fnRes[2]) = (fnArgs[1] = fnArgs[2])

\* The last second of the 31st of a month against the first second of the
\* 1st of the next month.
C25_Witness ==
    /\ fnName = "total_time"
    /\ fnPc = "done"
    /\ fnArgs[1] = <<1, 31, 23, 59, 59>>
    /\ fnArgs[2] = <<2, 1, 0, 0, 0>>
    /\ fnRes[1] < fnRes[2]

====
